---- MODULE Spec2Model ----
(***************************************************************************)
(* Bridge session of the browser demo: handleBrowserDemoWS of src/index.js *)
(* (first definition, lines 46-257).  One session pairs the browser        *)
(* connection (browserWS) with one agent connection (agentWS).  Every      *)
(* event-handler of the session is one action; the outcome of each send    *)
(* call (returns / throws) is an input of the action that makes the call.  *)
(***************************************************************************)
EXTENDS Integers, Sequences, FiniteSets, TLC

\* ------------------------------------------------------------------------
\* Bounds of the explored environment
\* ------------------------------------------------------------------------
MaxAgentMsgs == 2
MaxClientMsgs == 2
MaxTicks == 1
MaxSendFailures == 1
PrerollClientMsgs == 2
RelayAgentMsgs == 2
CloseAgentMsgs == 1
CloseClientMsgs == 1
FramingClientMsgs == 3
OrderAgentMsgs == 3
MaxBlocks == 4
MaxEnqueues == 3
MaxRenders == 3

\* ------------------------------------------------------------------------
\* Program constants
\* ------------------------------------------------------------------------
MAX_PRE_FRAMES == 200
FRAME_MS == 20
IN_RATE == 16000
BPS == 2
BYTES_PER_FRAME == (IN_RATE * BPS * FRAME_MS) \div 1000
LBRACE == 123
CLOSE_NORMAL == 1000
CLOSE_INTERNAL == 1011
CLOSE_POLICY == 1008
MAX_PRE_ROLL == 24
DEFAULT_VOICE == 1
OUT_RATE == 16000
FRAME_SAMPLES == 320

\* ------------------------------------------------------------------------
\* Buffers of client audio.  A byte of client audio is identified by its
\* position in the stream of binary bytes the client has delivered; a Buffer
\* is a sequence of segments [off, len] of that stream (adjacent segments
\* merged), so concat and subarray are exact on any operands.
\* ------------------------------------------------------------------------
EmptyBuf == << >>

Seg(off, len) == [off |-> off, len |-> len]

Chunk(off, len) == IF len = 0 THEN EmptyBuf ELSE << Seg(off, len) >>

RECURSIVE BufLen(_)
BufLen(b) == IF b = << >> THEN 0 ELSE Head(b).len + BufLen(Tail(b))

BufConcat(a, b) ==
  IF a = << >> THEN b
  ELSE IF b = << >> THEN a
  ELSE LET la == a[Len(a)]
           fb == b[1]
       IN IF la.off + la.len = fb.off
            THEN SubSeq(a, 1, Len(a) - 1) \o << Seg(la.off, la.len + fb.len) >> \o Tail(b)
            ELSE a \o b

\* buf.subarray(0, n), for 0 <= n <= buf.length
RECURSIVE BufTake(_, _)
BufTake(b, n) ==
  IF n = 0 \/ b = << >> THEN << >>
  ELSE IF Head(b).len <= n
         THEN << Head(b) >> \o BufTake(Tail(b), n - Head(b).len)
         ELSE << Seg(Head(b).off, n) >>

\* buf.subarray(n), for 0 <= n <= buf.length
RECURSIVE BufDrop(_, _)
BufDrop(b, n) ==
  IF n = 0 \/ b = << >> THEN b
  ELSE IF Head(b).len <= n
         THEN BufDrop(Tail(b), n - Head(b).len)
         ELSE << Seg(Head(b).off + n, Head(b).len - n) >> \o Tail(b)

\* ------------------------------------------------------------------------
\* Messages of the agent (inputs of agentWS.on('message')).  A message is a
\* string (text frame) or a Buffer of bytes.
\* ------------------------------------------------------------------------
TextMsg(s) == [isBuf |-> FALSE, str |-> s, bytes |-> << >>]
BinMsg(b) == [isBuf |-> TRUE, str |-> "", bytes |-> b]

TxtWelcome == "{\"type\":\"Welcome\"}"
TxtSettingsApplied == "{\"type\":\"SettingsApplied\"}"
TxtTranscript == "{\"type\":\"Transcript\",\"role\":\"user\",\"text\":\"hello\",\"partial\":false}"
TxtAgentFinal == "{\"type\":\"ConversationText\",\"role\":\"Assistant\",\"content\":\" Hi there \",\"final\":true}"
TxtEmptyText == "{\"type\":\"History\",\"role\":\"user\",\"content\":\"  \"}"
TxtWarning == "{\"type\":\"AgentWarning\",\"message\":\"slow\"}"
TxtError == "{\"type\":\"Error\",\"description\":\"bad\"}"
TxtUnknown == "{\"type\":\"Mystery\",\"text\":\"hello\"}"
TxtObject == "{}"
TxtNull == "null"
TxtGarbage == "{oops"
TxtNul == "{\\u0000"

BytesWelcome == <<123, 34, 116, 121, 112, 101, 34, 58, 34, 87, 101, 108, 99, 111, 109, 101, 34, 125>>
BytesSettingsApplied == <<123, 34, 116, 121, 112, 101, 34, 58, 34, 83, 101, 116, 116, 105, 110, 103, 115, 65, 112, 112, 108, 105, 101, 100, 34, 125>>
BytesObject == <<123, 125>>
BytesBraceNul == <<123, 0>>
BytesAudio == <<0, 1, 255, 127>>
BytesAudioBraceSecond == <<1, 123>>
BytesEmpty == << >>

\* data.toString('utf8') on the Buffers above that the handler decodes
toStringUtf8(bytes) ==
  CASE bytes = BytesWelcome -> TxtWelcome
    [] bytes = BytesSettingsApplied -> TxtSettingsApplied
    [] bytes = BytesObject -> TxtObject
    [] bytes = BytesBraceNul -> TxtNul
    [] OTHER -> "<undecoded>"

\* JavaScript values of an event's properties: strings stand for themselves
Undef == "<undefined>"
JsTrue == "<true>"
JsFalse == "<false>"

NoProps ==
  [js |-> "object", type |-> Undef, role |-> Undef, speaker |-> Undef, actor |-> Undef,
   content |-> Undef, text |-> Undef, transcript |-> Undef, message |-> Undef,
   final |-> Undef, is_final |-> Undef, status |-> Undef, description |-> Undef,
   partial |-> Undef]

ParseThrows == [NoProps EXCEPT !.js = "throws"]
ParsedNull == [NoProps EXCEPT !.js = "null"]

\* more events of the transcript branch (lines 175-185): the text of each
\* and what JSON.parse returns for it
TranscriptEvents ==
  { [str |-> "{\"type\":\"UserTranscript\",\"speaker\":\"User\",\"transcript\":\"hi\"}",
     evt |-> [NoProps EXCEPT !.type = "UserTranscript", !.speaker = "User", !.transcript = "hi"]],
    [str |-> "{\"type\":\"UserResponse\",\"message\":\"yes\"}",
     evt |-> [NoProps EXCEPT !.type = "UserResponse", !.message = "yes"]],
    [str |-> "{\"type\":\"AddUserMessage\",\"actor\":\"human\",\"text\":\"a\"}",
     evt |-> [NoProps EXCEPT !.type = "AddUserMessage", !.actor = "human", !.text = "a"]],
    [str |-> "{\"type\":\"AddAssistantMessage\",\"role\":\"assistant\",\"content\":\"b\"}",
     evt |-> [NoProps EXCEPT !.type = "AddAssistantMessage", !.role = "assistant", !.content = "b"]],
    [str |-> "{\"type\":\"AgentTranscript\",\"role\":\"AI Agent\",\"text\":\"c\"}",
     evt |-> [NoProps EXCEPT !.type = "AgentTranscript", !.role = "AI Agent", !.text = "c"]],
    [str |-> "{\"type\":\"AgentResponse\",\"text\":\"d\"}",
     evt |-> [NoProps EXCEPT !.type = "AgentResponse", !.text = "d"]],
    [str |-> "{\"type\":\"PartialTranscript\",\"role\":\"user\",\"text\":\"\"}",
     evt |-> [NoProps EXCEPT !.type = "PartialTranscript", !.role = "user", !.text = ""]],
    [str |-> "{\"type\":\"AddPartialTranscript\",\"role\":\"agent\"}",
     evt |-> [NoProps EXCEPT !.type = "AddPartialTranscript", !.role = "agent"]],
    [str |-> "{\"type\":\"Transcript\",\"content\":\"\",\"text\":\"hello\"}",
     evt |-> [NoProps EXCEPT !.type = "Transcript", !.content = "", !.text = "hello"]] }

\* more events of the warning and error branches (lines 196-202): the text of
\* each and what JSON.parse returns for it
StatusEvents ==
  { [str |-> "{\"type\":\"AgentWarning\"}",
     evt |-> [NoProps EXCEPT !.type = "AgentWarning"]],
    [str |-> "{\"type\":\"AgentWarning\",\"role\":\"agent\",\"text\":\"careful\"}",
     evt |-> [NoProps EXCEPT !.type = "AgentWarning", !.role = "agent", !.text = "careful"]],
    [str |-> "{\"type\":\"AgentError\",\"message\":\"boom\"}",
     evt |-> [NoProps EXCEPT !.type = "AgentError", !.message = "boom"]],
    [str |-> "{\"type\":\"AgentError\",\"description\":\"\",\"content\":\"x\"}",
     evt |-> [NoProps EXCEPT !.type = "AgentError", !.description = "", !.content = "x"]],
    [str |-> "{\"type\":\"Error\"}",
     evt |-> [NoProps EXCEPT !.type = "Error"]] }

\* JSON.parse on the texts above
JSONParse(s) ==
  CASE s = TxtWelcome -> [NoProps EXCEPT !.type = "Welcome"]
    [] s = TxtSettingsApplied -> [NoProps EXCEPT !.type = "SettingsApplied"]
    [] s = TxtTranscript ->
         [NoProps EXCEPT !.type = "Transcript", !.role = "user", !.text = "hello",
                         !.partial = JsFalse]
    [] s = TxtAgentFinal ->
         [NoProps EXCEPT !.type = "ConversationText", !.role = "Assistant",
                         !.content = " Hi there ", !.final = JsTrue]
    [] s = TxtEmptyText ->
         [NoProps EXCEPT !.type = "History", !.role = "user", !.content = "  "]
    [] s = TxtWarning -> [NoProps EXCEPT !.type = "AgentWarning", !.message = "slow"]
    [] s = TxtError -> [NoProps EXCEPT !.type = "Error", !.description = "bad"]
    [] s = TxtUnknown -> [NoProps EXCEPT !.type = "Mystery", !.text = "hello"]
    [] s = TxtObject -> NoProps
    [] s = TxtNull -> ParsedNull
    [] \E e \in TranscriptEvents : e.str = s ->
         (CHOOSE e \in TranscriptEvents : e.str = s).evt
    [] \E e \in StatusEvents : e.str = s ->
         (CHOOSE e \in StatusEvents : e.str = s).evt
    [] OTHER -> ParseThrows

\* a || b, a ?? b, String(x).toLowerCase(), String(x).trim(), s.includes(..)
Falsy(v) == v \in {Undef, "", JsFalse}
JsOr(a, b) == IF Falsy(a) THEN b ELSE a
JsNullish(a, b) == IF a = Undef THEN b ELSE a
toLowerCase(s) ==
  CASE s = "Assistant" -> "assistant"
    [] s = "User" -> "user"
    [] s = "AI Agent" -> "ai agent"
    [] OTHER -> s
trim(s) ==
  CASE s = " Hi there " -> "Hi there"
    [] s = "  " -> ""
    [] OTHER -> s
includes(s, part) ==
  CASE part = "agent" -> s \in {"agent", "ai agent"}
    [] part = "assistant" -> s \in {"assistant"}
    [] OTHER -> FALSE

\* ------------------------------------------------------------------------
\* The voiceId parameter of the request URL (lines 50-55).  A value is the
\* text of the parameter, VoiceAbsent when the URL has none, BadUrl when
\* new URL(req.url, ..) throws.
\* ------------------------------------------------------------------------
VoiceAbsent == "<absent>"
BadUrl == "<bad url>"

VoiceParams ==
  {VoiceAbsent, BadUrl, "", "1", "2", "3", "0", "4", "-1", "abc", "2abc", "3.9", " 2"}

NotANumber == [nan |-> TRUE, n |-> 0]
Number(n) == [nan |-> FALSE, n |-> n]

\* parseInt(s, 10) on the texts above
parseInt(s) ==
  CASE s = "1" -> Number(1)
    [] s = "2" -> Number(2)
    [] s = "3" -> Number(3)
    [] s = "0" -> Number(0)
    [] s = "4" -> Number(4)
    [] s = "-1" -> Number(-1)
    [] s = "2abc" -> Number(2)
    [] s = "3.9" -> Number(3)
    [] s = " 2" -> Number(2)
    [] OTHER -> NotANumber

\* lines 50-55: let voiceId = 1; try { ... if ([1, 2, 3].includes(v)) voiceId = v; } catch {}
ParseVoiceId(param) ==
  IF param = BadUrl THEN DEFAULT_VOICE
  ELSE LET v == parseInt(IF param \in {VoiceAbsent, ""} THEN "1" ELSE param)
       IN IF ~v.nan /\ v.n \in {1, 2, 3} THEN v.n ELSE DEFAULT_VOICE

\* ------------------------------------------------------------------------
\* What the session sends.  A log entry is one send call and its outcome.
\* ------------------------------------------------------------------------
ClientText(type, text) ==
  [kind |-> "text", type |-> type, text |-> text, role |-> "", partial |-> FALSE,
   bytes |-> << >>]
Status(text) == ClientText("status", text)
SettingsInfo == ClientText("settings", "")
TranscriptMsg(role, text, partial) ==
  [kind |-> "text", type |-> "transcript", text |-> text, role |-> role,
   partial |-> partial, bytes |-> << >>]
ClientBinary(bytes) ==
  [kind |-> "binary", type |-> "", text |-> "", role |-> "", partial |-> FALSE,
   bytes |-> bytes]

SettingsMsg == [type |-> "Settings", frame |-> EmptyBuf]
KeepAliveMsg == [type |-> "KeepAlive", frame |-> EmptyBuf]
Audio(frame) == [type |-> "audio", frame |-> frame]

Sent(m, ok) == [msg |-> m, ok |-> ok]

\* number of throwing sends among the outcomes chosen for one handler run
RECURSIVE Throws(_)
Throws(oks) == IF oks = << >> THEN 0
               ELSE (IF Head(oks) THEN 0 ELSE 1) + Throws(Tail(oks))

VARIABLES
  phase,            \* "new" before the handler runs, "rejected" | "running" after
  dgKey,            \* process.env.DEEPGRAM_API_KEY is set
  agentState,       \* agentWS.readyState ("NONE": no agentWS was created)
  browserState,     \* browserWS.readyState
  browserCloseCode, \* code of browserWS.close(code), 0 when never called
  closed, settingsSent, settingsApplied,
  preFrames, micBuf,
  keepaliveOn, meterOn,
  agentLog,         \* calls of agentWS.send, in order
  clientLog,        \* calls of browserWS.send, in order
  agentCloseCalls,  \* codes of the agentWS.close calls, in order
  terminateCalls,   \* number of browserWS.terminate calls
  nAgent,           \* messages delivered to agentWS.on('message') so far
  nClient,          \* messages delivered to browserWS.on('message') so far
  lastData,         \* the message last delivered by the agent
  ackSeen,          \* a SettingsApplied event was delivered by the agent
  streamPos,        \* binary bytes the client has delivered so far
  pushed,           \* frames pushed on preFrames since it was last cleared
  nTicks,           \* keepalive ticks so far
  failsLeft,        \* send calls that may still throw
  throwAll,         \* FALSE: only the sends whose throw changes what the handler
                    \* does next may throw (Settings, the flush of preFrames)
  agentOpened,      \* agentWS has emitted 'open'
  agentErrored, browserErrored,
  voiceParam,       \* the voiceId parameter of req.url
  voiceId,          \* the voice identifier of the session, 0 before it is parsed
  afterClose        \* an agent message was delivered after safeClose had run

\* ------------------------------------------------------------------------
\* PCMProcessor of src/web/public/worklets/pcm-processor.js: the capture
\* worklet of the browser.  Numbers are exact rationals kept as integers:
\* an input sample is a number of halves, pos is a number of 1/OUT_RATE
\* input samples, a resampled sample is a number of 1/(2 * OUT_RATE).
\* ------------------------------------------------------------------------
VARIABLES
  inRate,           \* this.inRate (this.ratio is inRate / OUT_RATE)
  signal,           \* the input signal of the microphone
  inBuf,            \* this.inBuf
  pos,              \* this.pos
  outFloat,         \* this.outFloat
  posted,           \* the Int16Array frames given to port.postMessage, in order
  resampled,        \* every sample returned by _resampleBlock so far, in order
  fed,              \* input samples given to process so far
  nBlocks,          \* calls of process so far
  lastRead,         \* highest index of inBuf read by the last _resampleBlock (-1: none)
  lastLen           \* inBuf.length during the loop of the last _resampleBlock

pvars == << inRate, signal, inBuf, pos, outFloat, posted, resampled, fed, nBlocks,
           lastRead, lastLen >>

\* sample rates whose ratio to OUT_RATE is exact in binary floating point
InRates == {8000, 16000, 24000, 32000, 48000, 96000}

\* the microphone signal: the sample at position i of the input stream
\* ("ramp": the value i; "saw": -1.5, -1, -0.5, 0, 0.5, 1, 1.5, -1.5, ...)
Signals == {"ramp", "saw"}
SampleAt(kind, i) == IF kind = "ramp" THEN 2 * i ELSE (i % 7) - 3

ProcInit(rates, kinds) ==
  /\ inRate \in rates
  /\ signal \in kinds
  /\ inBuf = << >>
  /\ pos = 0
  /\ outFloat = << >>
  /\ posted = << >>
  /\ resampled = << >>
  /\ fed = 0
  /\ nBlocks = 0
  /\ lastRead = -1
  /\ lastLen = 0

\* slice returning the whole array
slice_keepAll(arr, n) == arr

\* array.slice(n)
slice(arr, n) == IF n >= Len(arr) THEN << >> ELSE SubSeq(arr, n + 1, Len(arr))

\* _resampleBlock without line 36 (pos -= consumed)
resampleBlock_noRebase(buf0, pos0, rate, input) ==
  LET buf == buf0 \o input
      gap == (Len(buf) - 1) * OUT_RATE - pos0
      passes == IF gap > 0 THEN ((gap - 1) \div rate) + 1 ELSE 0
      out == [k \in 1..passes |->
                LET p == pos0 + (k - 1) * rate
                    i == p \div OUT_RATE
                    frac == p % OUT_RATE
                IN buf[i + 1] * OUT_RATE + (buf[i + 2] - buf[i + 1]) * frac]
      posEnd == pos0 + passes * rate
      consumed == posEnd \div OUT_RATE
  IN [inBuf |-> IF consumed > 0 THEN slice(buf, consumed) ELSE buf,
      pos |-> posEnd,
      out |-> out,
      top |-> IF passes = 0 THEN -1 ELSE ((pos0 + (passes - 1) * rate) \div OUT_RATE) + 1,
      len |-> Len(buf)]

\* lines 17-39: _resampleBlock(input).  The loop of lines 23-30 makes `passes`
\* passes, pos growing by the ratio in each; out[k] is the sample of pass k.
resampleBlock(buf0, pos0, rate, input) ==
  LET buf == buf0 \o input
      gap == (Len(buf) - 1) * OUT_RATE - pos0
      passes == IF gap > 0 THEN ((gap - 1) \div rate) + 1 ELSE 0
      out == [k \in 1..passes |->
                LET p == pos0 + (k - 1) * rate
                    i == p \div OUT_RATE
                    frac == p % OUT_RATE
                IN buf[i + 1] * OUT_RATE + (buf[i + 2] - buf[i + 1]) * frac]
      posEnd == pos0 + passes * rate
      consumed == posEnd \div OUT_RATE
  IN [inBuf |-> IF consumed > 0 THEN slice(buf, consumed) ELSE buf,
      pos |-> IF consumed > 0 THEN posEnd - consumed * OUT_RATE ELSE posEnd,
      out |-> out,
      top |-> IF passes = 0 THEN -1 ELSE ((pos0 + (passes - 1) * rate) \div OUT_RATE) + 1,
      len |-> Len(buf)]

\* x | 0 on a rational num / den: truncation towards zero (the operands of
\* line 51 are clamped, below 2^31 in magnitude, so the 32 bits never wrap)
ToInt32(num, den) == IF num < 0 THEN -((-num) \div den) ELSE num \div den

\* the store of a number into an Int16Array
ToInt16(x) == ((x + 32768) % 65536) - 32768

\* line 51 with the two scale factors exchanged
Quantize_swapped(v) ==
  LET den == 2 * OUT_RATE
      c == IF v > den THEN den ELSE IF v < -den THEN -den ELSE v
  IN ToInt16(IF c < 0 THEN ToInt32(c * 32767, den) ELSE ToInt32(c * 32768, den))

\* lines 48-51: the value stored for the sample v (a number of 1/(2 * OUT_RATE))
Quantize(v) ==
  LET den == 2 * OUT_RATE
      c == IF v > den THEN den ELSE IF v < -den THEN -den ELSE v
  IN ToInt16(IF c < 0 THEN ToInt32(c * 32768, den) ELSE ToInt32(c * 32767, den))

\* _flushFrames posting what is left of the queue as a last, shorter frame
flushFrames_partial(floats) ==
  LET nf == (Len(floats) + FRAME_SAMPLES - 1) \div FRAME_SAMPLES
  IN [frames |-> [j \in 1..nf |->
                    [i \in 1..(IF j * FRAME_SAMPLES <= Len(floats) THEN FRAME_SAMPLES
                               ELSE Len(floats) - (j - 1) * FRAME_SAMPLES) |->
                       Quantize(floats[(j - 1) * FRAME_SAMPLES + i])]],
      outFloat |-> << >>]

\* lines 41-56: _flushFrames(); the loop makes length div FRAME_SAMPLES passes
flushFrames(floats) ==
  LET nf == Len(floats) \div FRAME_SAMPLES
  IN [frames |-> [j \in 1..nf |->
                    [i \in 1..FRAME_SAMPLES |->
                       Quantize(floats[(j - 1) * FRAME_SAMPLES + i])]],
      outFloat |-> slice(floats, nf * FRAME_SAMPLES)]


\* ------------------------------------------------------------------------
\* PCMPlayer of src/web/public/worklets/pcm-player.js: the playback worklet.
\* A sample is a non-zero integer that names it; 0 is silence.
\* ------------------------------------------------------------------------
VARIABLES
  queue,            \* this.queue: the Float32Array chunks, oldest first
  readIndex,        \* this.readIndex
  lastOut,          \* outputs[0][0] after the last call of process
  lastRet,          \* what the last call of process returned
  enq,              \* every sample of every chunk pushed on the queue, in order
  outLog,           \* every sample written to an output so far, in order
  nEnq,             \* messages handled so far
  nRender,          \* calls of process so far
  lastMsg           \* the last message: whether it was an ArrayBuffer, and of how many samples

yvars == << queue, readIndex, lastOut, lastRet, enq, outLog, nEnq, nRender, lastMsg >>

\* process found no output channel to write
NoOutput == [written |-> FALSE, samples |-> << >>]
Output(samples) == [written |-> TRUE, samples |-> samples]
NoReturn == "<not called>"
\* the content of an output sample that process did not write
Stale == -1

\* lines 4-15: constructor
PlayerInit ==
  /\ queue = << >>
  /\ readIndex = 0
  /\ lastOut = NoOutput
  /\ lastRet = NoReturn
  /\ enq = << >>
  /\ outLog = << >>
  /\ nEnq = 0
  /\ nRender = 0
  /\ lastMsg = [isBuffer |-> FALSE, len |-> 0]

\* port.onmessage without the test of line 12
onmessage_keepEmpty(q, isBuffer, f32) ==
  IF isBuffer THEN Append(q, f32) ELSE q

\* lines 8-14: port.onmessage; isBuffer: e.data is an ArrayBuffer, f32 its
\* samples
onmessage(q, isBuffer, f32) ==
  IF isBuffer /\ Len(f32) > 0 THEN Append(q, f32) ELSE q

\* lines 24-35: the loop of process from sample i on (i counted from 0)
RECURSIVE renderLoop(_, _, _, _)
renderLoop(q, ri, out, i) ==
  IF i >= Len(out) THEN [out |-> out, queue |-> q, readIndex |-> ri]
  ELSE IF q = << >>
    THEN renderLoop(q, ri, [out EXCEPT ![i + 1] = 0], i + 1)
    ELSE LET chunk == q[1]
             written == [out EXCEPT ![i + 1] = chunk[ri + 1]]
         IN IF ri + 1 >= Len(chunk)
              THEN renderLoop(Tail(q), 0, written, i + 1)
              ELSE renderLoop(q, ri + 1, written, i + 1)

\* process starting every call at the first sample of the head chunk
render_restart(q, ri, frames) ==
  renderLoop(q, 0, [k \in 1..frames |-> Stale], 0)

\* lines 17-38: process on an output of the given number of samples
render(q, ri, frames) ==
  renderLoop(q, ri, [k \in 1..frames |-> Stale], 0)

\* ------------------------------------------------------------------------
\* setupWebDemoLive of src/web-demo-live.js: the path-scoped bridge.  A
\* session of it uses the session fields below (preFrames is its preRoll)
\* with the phases "new", "live" and "rejected".
\* ------------------------------------------------------------------------
VARIABLES
  origin,           \* req.headers.origin || ''
  allowedOrigins    \* process.env.ALLOWED_ORIGINS, Undef when it is not set

lvars == << origin, allowedOrigins >>

\* isOriginAllowed letting every origin in
isOriginAllowed_any(o, env) == TRUE

\* lines 34-38: isOriginAllowed(origin); the list is what split(','),
\* map(trim) and filter(Boolean) leave of the variable
isOriginAllowed(o, env) ==
  LET list == CASE env = "https://a.example" -> {"https://a.example"}
                [] env = "https://a.example, https://b.example" ->
                     {"https://a.example", "https://b.example"}
                [] env \in {Undef, "", " , "} -> {}
  IN IF list = {} THEN TRUE ELSE o \in list

\* line 132: if (evt) fails, and the handler goes on to line 151
LiveFallsThrough_never(evt) == FALSE

LiveFallsThrough(evt) == evt.js # "object"



svars == << phase, dgKey, agentState, browserState, browserCloseCode, closed,
           settingsSent, settingsApplied, preFrames, micBuf, keepaliveOn, meterOn,
           agentLog, clientLog, agentCloseCalls, terminateCalls, nAgent,
           nClient, lastData, ackSeen, streamPos, pushed, nTicks, failsLeft, throwAll,
           agentOpened, agentErrored, browserErrored, voiceParam, voiceId,
           afterClose >>

vars == << svars, pvars, yvars, lvars >>

SessionInit(budget, all, params) ==
  /\ phase = "new"
  /\ dgKey \in BOOLEAN
  /\ agentState = "NONE"
  /\ browserState = "OPEN"
  /\ browserCloseCode = 0
  /\ closed = FALSE
  /\ settingsSent = FALSE
  /\ settingsApplied = FALSE
  /\ preFrames = << >>
  /\ micBuf = EmptyBuf
  /\ keepaliveOn = FALSE
  /\ meterOn = FALSE
  /\ agentLog = << >>
  /\ clientLog = << >>
  /\ agentCloseCalls = << >>
  /\ terminateCalls = 0
  /\ nAgent = 0
  /\ nClient = 0
  /\ lastData = TextMsg("")
  /\ ackSeen = FALSE
  /\ streamPos = 0
  /\ pushed = << >>
  /\ nTicks = 0
  /\ failsLeft = budget
  /\ throwAll = all
  /\ agentOpened = FALSE
  /\ agentErrored = FALSE
  /\ browserErrored = FALSE
  /\ voiceParam \in params
  /\ voiceId = 0
  /\ afterClose = FALSE

\* a session of the server: the worklets of the browser are left out of it
InitSession(budget, all, params) ==
  /\ SessionInit(budget, all, params)
  /\ ProcInit({48000}, {"ramp"})
  /\ PlayerInit
  /\ origin = ""
  /\ allowedOrigins = Undef

InitWith(budget, all) == InitSession(budget, all, {VoiceAbsent})

Init == InitWith(MaxSendFailures, FALSE)

\* ------------------------------------------------------------------------
\* Pieces of the handlers
\* ------------------------------------------------------------------------

\* the guard of line 64 never taken
MissingKey_never(key) == FALSE

\* line 64: if (!dgKey)
MissingKey(key) == ~key

\* sendSettings without the early return of line 113
sendSettings_noGuard(sent, aLog, cLog, okAgent, okClient) ==
  IF okAgent
    THEN [settingsSent |-> TRUE,
          agentLog |-> Append(aLog, Sent(SettingsMsg, TRUE)),
          clientLog |-> Append(cLog, Sent(SettingsInfo, okClient))]
    ELSE [settingsSent |-> sent,
          agentLog |-> Append(aLog, Sent(SettingsMsg, FALSE)),
          clientLog |-> Append(cLog,
                         Sent(Status("Failed to send Settings to Deepgram."), okClient))]

\* sendSettings with line 130 (settingsSent = true) moved before the send
sendSettings_flagFirst(sent, aLog, cLog, okAgent, okClient) ==
  IF sent
    THEN [settingsSent |-> sent, agentLog |-> aLog, clientLog |-> cLog]
    ELSE [settingsSent |-> TRUE,
          agentLog |-> Append(aLog, Sent(SettingsMsg, okAgent)),
          clientLog |-> Append(cLog,
                         Sent(IF okAgent THEN SettingsInfo
                              ELSE Status("Failed to send Settings to Deepgram."),
                              okClient))]

\* lines 112-140: sendSettings(); okAgent / okClient are the outcomes of
\* agentWS.send and of the browserWS.send that follows it
sendSettings(sent, aLog, cLog, okAgent, okClient) ==
  IF sent
    THEN [settingsSent |-> sent, agentLog |-> aLog, clientLog |-> cLog]
    ELSE IF okAgent
      THEN [settingsSent |-> TRUE,
            agentLog |-> Append(aLog, Sent(SettingsMsg, TRUE)),
            clientLog |-> Append(cLog, Sent(SettingsInfo, okClient))]
      ELSE [settingsSent |-> FALSE,
            agentLog |-> Append(aLog, Sent(SettingsMsg, FALSE)),
            clientLog |-> Append(cLog,
                           Sent(Status("Failed to send Settings to Deepgram."), okClient))]

\* line 156 without the sniffing of the first byte
IsControl_noSniff(data) == ~data.isBuf

\* line 156: the message is JSON control data
IsControl(data) ==
  \/ ~data.isBuf
  \/ (data.isBuf /\ Len(data.bytes) # 0 /\ data.bytes[1] = LBRACE)

\* line 157: JSON.parse(isBuf ? data.toString('utf8') : data)
ParseEvent(data) == JSONParse(IF data.isBuf THEN toStringUtf8(data.bytes) ELSE data.str)

\* lines 160-162
RoleOf(evt) == toLowerCase(JsOr(JsOr(JsOr(evt.role, evt.speaker), evt.actor), ""))
TextOf(evt) ==
  trim(JsNullish(JsNullish(JsNullish(JsNullish(evt.content, evt.text), evt.transcript),
                           evt.message), ""))
IsFinal(evt) ==
  \/ evt.final = JsTrue
  \/ evt.is_final = JsTrue
  \/ evt.status = "final"
  \/ evt.type = "UserResponse"

\* the transcript branch taken for the type of any event that carries a text
TranscriptTypes_any ==
  {"ConversationText", "History", "UserTranscript", "UserResponse", "Transcript",
   "AddUserMessage", "AddAssistantMessage", "AgentTranscript", "AgentResponse",
   "PartialTranscript", "AddPartialTranscript", "Mystery"}

\* the warning and error types among the case labels of the transcript branch
TranscriptTypes_withErrors ==
  {"ConversationText", "History", "UserTranscript", "UserResponse", "Transcript",
   "AddUserMessage", "AddAssistantMessage", "AgentTranscript", "AgentResponse",
   "PartialTranscript", "AddPartialTranscript", "AgentWarning", "AgentError", "Error"}

\* lines 175-185: the case labels of the transcript branch
TranscriptTypes ==
  {"ConversationText", "History", "UserTranscript", "UserResponse", "Transcript",
   "AddUserMessage", "AddAssistantMessage", "AgentTranscript", "AgentResponse",
   "PartialTranscript", "AddPartialTranscript"}

\* the payload with the role the event gave, in lower case
TranscriptPayload_rawRole(evt) ==
  TranscriptMsg(RoleOf(evt), TextOf(evt), ~IsFinal(evt))

\* lines 187-192: the payload of a transcript event
TranscriptPayload(evt) ==
  TranscriptMsg(IF includes(RoleOf(evt), "agent") \/ includes(RoleOf(evt), "assistant")
                  THEN "Agent" ELSE "User",
                TextOf(evt),
                ~IsFinal(evt))

\* line 197 / line 201: the text of the status sent for a warning / an error
WarningText(evt) == JsOr(evt.message, "unknown")
ErrorText(evt) == JsOr(JsOr(evt.description, evt.message), "unknown")

\* line 171: try { for (const fr of preFrames) agentWS.send(fr); } catch {}
\* failAt = 0: no send throws; failAt = k: the k-th send throws and ends the loop
FlushSends(pre, failAt) ==
  IF failAt = 0
    THEN [i \in 1..Len(pre) |-> Sent(Audio(pre[i]), TRUE)]
    ELSE [i \in 1..failAt |-> Sent(Audio(pre[i]), i < failAt)]

\* line 209 forwarding a truncated payload
ForwardBinary_truncated(data) ==
  ClientBinary(IF Len(data.bytes) > 2 THEN SubSeq(data.bytes, 1, 2) ELSE data.bytes)

\* line 209: browserWS.send(data, { binary: true })
ForwardBinary(data) == ClientBinary(data.bytes)

\* line 238 testing settingsSent alone
ShouldBuffer_sentOnly(sent, applied) == ~sent

\* line 238: the frame is buffered, not sent
ShouldBuffer(sent, applied) == ~sent \/ ~applied

\* lines 239-240 with pop() for shift(): the newest frame is dropped
PushPreFrame_dropNewest(pre, frame) ==
  LET p == Append(pre, frame)
  IN IF Len(p) > MAX_PRE_FRAMES THEN SubSeq(p, 1, Len(p) - 1) ELSE p

\* lines 239-240: preFrames.push(frame); if (length > MAX) preFrames.shift()
PushPreFrame(pre, frame) ==
  LET p == Append(pre, frame)
  IN IF Len(p) > MAX_PRE_FRAMES THEN Tail(p) ELSE p

\* one pass of the loop with line 237 dropping the rest of micBuf
FrameStep_noCarry(s, buffering, fails) ==
  IF BufLen(s.micBuf) >= BYTES_PER_FRAME
    THEN LET frame == BufTake(s.micBuf, BYTES_PER_FRAME)
         IN IF buffering
              THEN [s EXCEPT !.micBuf = EmptyBuf,
                             !.preFrames = PushPreFrame(@, frame),
                             !.pushed = Append(@, frame),
                             !.k = @ + 1]
              ELSE [s EXCEPT !.micBuf = EmptyBuf,
                             !.sends = Append(@, Sent(Audio(frame), s.k \notin fails)),
                             !.k = @ + 1]
    ELSE s

\* one pass of the loop when a throwing send is not caught at line 242: the
\* passes after it do not run
FrameStep_abortOnThrow(s, buffering, fails) ==
  IF \E i \in 1..Len(s.sends) : ~s.sends[i].ok THEN s
  ELSE IF BufLen(s.micBuf) >= BYTES_PER_FRAME
    THEN LET frame == BufTake(s.micBuf, BYTES_PER_FRAME)
             rest == BufDrop(s.micBuf, BYTES_PER_FRAME)
         IN IF buffering
              THEN [s EXCEPT !.micBuf = rest,
                             !.preFrames = PushPreFrame(@, frame),
                             !.pushed = Append(@, frame),
                             !.k = @ + 1]
              ELSE [s EXCEPT !.micBuf = rest,
                             !.sends = Append(@, Sent(Audio(frame), s.k \notin fails)),
                             !.k = @ + 1]
    ELSE s

\* lines 235-244: one pass of the while loop: the test of line 235, and the
\* body when it holds.  s.k counts the frames sliced by this message; the
\* sends of the frames whose k is in fails throw.
FrameStep(s, buffering, fails) ==
  IF BufLen(s.micBuf) >= BYTES_PER_FRAME
    THEN LET frame == BufTake(s.micBuf, BYTES_PER_FRAME)
             rest == BufDrop(s.micBuf, BYTES_PER_FRAME)
         IN IF buffering
              THEN [s EXCEPT !.micBuf = rest,
                             !.preFrames = PushPreFrame(@, frame),
                             !.pushed = Append(@, frame),
                             !.k = @ + 1]
              ELSE [s EXCEPT !.micBuf = rest,
                             !.sends = Append(@, Sent(Audio(frame), s.k \notin fails)),
                             !.k = @ + 1]
    ELSE s

\* n passes of the loop, one after the other (s.k is at least 1: the test on
\* first.k only makes the first passes evaluated before the later ones)
RECURSIVE Passes(_, _, _, _)
Passes(s, n, buffering, fails) ==
  IF n = 0 THEN s
  ELSE IF n = 1 THEN FrameStep(s, buffering, fails)
  ELSE LET first == Passes(s, n \div 2, buffering, fails)
       IN IF first.k >= 1
            THEN Passes(first, n - (n \div 2), buffering, fails)
            ELSE first

\* lines 235-244: the while loop, which ends after length div 640 passes
FrameLoop(mb, pre, psh, buffering, fails) ==
  Passes([micBuf |-> mb, preFrames |-> pre, pushed |-> psh, sends |-> << >>, k |-> 1],
         BufLen(mb) \div BYTES_PER_FRAME, buffering, fails)

\* the sets of at most k of the indices 1..n
RECURSIVE FailSets(_, _)
FailSets(n, k) ==
  IF k = 0 \/ n = 0 THEN {{}}
  ELSE LET P == FailSets(n, k - 1)
       IN P \cup {S \cup {i} : S \in P, i \in 1..n}

\* line 254 replaced by a new connection attempt
AfterClose_reopen(st) == "CONNECTING"

\* line 254 without the call of agentWS.close
AfterClose_noop(st) == st

\* agentWS.close(code): the effect on readyState
AfterClose(st) == IF st \in {"CONNECTING", "OPEN"} THEN "CLOSING" ELSE st

\* outcomes of a send whose throw is swallowed by a try around that call alone
Swallowed == IF throwAll THEN BOOLEAN ELSE {TRUE}

\* ------------------------------------------------------------------------
\* Actions
\* ------------------------------------------------------------------------

\* lines 46-110 (and the registration of the handlers, to line 248)
HandleConnection ==
  /\ phase = "new"
  /\ \E ok \in Swallowed :
       /\ Throws(<< ok >>) <= failsLeft
       /\ failsLeft' = failsLeft - Throws(<< ok >>)
       /\ IF MissingKey(dgKey)
            THEN /\ clientLog' = Append(clientLog,
                                        Sent(Status("Missing DEEPGRAM_API_KEY"), ok))
                 /\ browserState' = "CLOSING"
                 /\ browserCloseCode' = CLOSE_INTERNAL
                 /\ phase' = "rejected"
                 /\ UNCHANGED << agentState, keepaliveOn, meterOn >>
            ELSE /\ agentState' = "CONNECTING"
                 /\ clientLog' = Append(clientLog, Sent(Status("demo-ws-connected"), ok))
                 /\ keepaliveOn' = TRUE
                 /\ meterOn' = TRUE
                 /\ phase' = "running"
                 /\ UNCHANGED << browserState, browserCloseCode >>
  /\ voiceId' = ParseVoiceId(voiceParam)
  /\ UNCHANGED << pvars, yvars, lvars, dgKey, voiceParam, afterClose, agentOpened, throwAll, closed, settingsSent, settingsApplied, preFrames, micBuf,
                  agentLog, agentCloseCalls, terminateCalls, nAgent, lastData, ackSeen, nClient,
                  streamPos, pushed, nTicks, agentErrored, browserErrored >>

\* the keepalive tick without the test of line 98
KeepaliveTick_noCheck ==
  /\ phase = "running"
  /\ keepaliveOn
  /\ nTicks < MaxTicks
  /\ nTicks' = nTicks + 1
  /\ \E ok \in Swallowed :
       /\ Throws(<< ok >>) <= failsLeft
       /\ agentLog' = Append(agentLog, Sent(KeepAliveMsg, ok))
       /\ failsLeft' = failsLeft - Throws(<< ok >>)
  /\ UNCHANGED << pvars, yvars, lvars, phase, dgKey, voiceParam, voiceId, afterClose, agentOpened, throwAll,
                  agentState, browserState, browserCloseCode, closed,
                  settingsSent, settingsApplied, preFrames, micBuf, keepaliveOn,
                  meterOn, clientLog, agentCloseCalls, terminateCalls, nAgent, lastData,
                  ackSeen, nClient, streamPos, pushed, agentErrored, browserErrored >>

\* lines 97-101: one tick of the keepalive interval
KeepaliveTick ==
  /\ phase = "running"
  /\ keepaliveOn
  /\ nTicks < MaxTicks
  /\ nTicks' = nTicks + 1
  /\ \E ok \in Swallowed :
       /\ Throws(<< ok >>) <= failsLeft
       /\ IF agentState = "OPEN"
            THEN /\ agentLog' = Append(agentLog, Sent(KeepAliveMsg, ok))
                 /\ failsLeft' = failsLeft - Throws(<< ok >>)
            ELSE /\ ok
                 /\ UNCHANGED << agentLog, failsLeft >>
  /\ UNCHANGED << pvars, yvars, lvars, phase, dgKey, voiceParam, voiceId, afterClose, agentOpened, throwAll, agentState, browserState, browserCloseCode, closed,
                  settingsSent, settingsApplied, preFrames, micBuf, keepaliveOn,
                  meterOn, clientLog, agentCloseCalls, terminateCalls, nAgent, lastData, ackSeen,
                  nClient, streamPos, pushed, agentErrored, browserErrored >>

\* lines 105-110: one tick of the metering interval (it only logs)
MeterTick ==
  /\ phase = "running"
  /\ meterOn
  /\ UNCHANGED vars

\* lines 142-146: agentWS.on('open')
AgentOpen ==
  /\ phase = "running"
  /\ agentState = "CONNECTING"
  /\ agentState' = "OPEN"
  /\ agentOpened' = TRUE
  /\ \E ok1 \in Swallowed, okAgent \in BOOLEAN, okClient \in Swallowed :
       /\ Throws(<< ok1, okAgent, okClient >>) <= failsLeft
       /\ failsLeft' = failsLeft - Throws(<< ok1, okAgent, okClient >>)
       /\ LET r == sendSettings(settingsSent, agentLog,
                     Append(clientLog, Sent(Status("Connected to Deepgram."), ok1)),
                     okAgent, okClient)
          IN /\ settingsSent' = r.settingsSent
             /\ agentLog' = r.agentLog
             /\ clientLog' = r.clientLog
  /\ UNCHANGED << pvars, yvars, lvars, phase, dgKey, voiceParam, voiceId, afterClose, throwAll, browserState, browserCloseCode, closed, settingsApplied,
                  preFrames, micBuf, keepaliveOn, meterOn, agentCloseCalls,
                  terminateCalls, nAgent, lastData, ackSeen, nClient, streamPos, pushed, nTicks,
                  agentErrored, browserErrored >>

\* the session fields that a handler of the agent connection may change
Fields ==
  [settingsSent |-> settingsSent, settingsApplied |-> settingsApplied,
   preFrames |-> preFrames, pushed |-> pushed, agentLog |-> agentLog,
   clientLog |-> clientLog]

\* send calls of a log that threw
FailedIn(log) == Cardinality({i \in 1..Len(log) : ~log[i].ok})

\* lines 168-174: case 'SettingsApplied'
OnSettingsApplied(st, failAt) ==
  [st EXCEPT !.settingsApplied = TRUE,
             !.agentLog = IF Len(st.preFrames) # 0
                            THEN @ \o FlushSends(st.preFrames, failAt)
                            ELSE @,
             !.preFrames = << >>,
             !.pushed = << >>]

\* lines 160-203: the switch over evt.type, for a parsed event
OnControl(evt, st, okAgent, okClient, failAt) ==
  CASE evt.type = "Welcome" ->
         LET r == sendSettings(st.settingsSent, st.agentLog, st.clientLog,
                               okAgent, okClient)
         IN [st EXCEPT !.settingsSent = r.settingsSent, !.agentLog = r.agentLog,
                       !.clientLog = r.clientLog]
    [] evt.type = "SettingsApplied" -> OnSettingsApplied(st, failAt)
    [] evt.type \in TranscriptTypes ->
         IF TextOf(evt) = "" THEN st
         ELSE [st EXCEPT !.clientLog = Append(@, Sent(TranscriptPayload(evt), okClient))]
    [] evt.type = "AgentWarning" ->
         [st EXCEPT !.clientLog = Append(@, Sent(Status(WarningText(evt)), okClient))]
    [] evt.type \in {"AgentError", "Error"} ->
         [st EXCEPT !.clientLog = Append(@, Sent(Status(ErrorText(evt)), okClient))]
    [] OTHER -> st

\* lines 152-210: the handler of an agent message
OnAgentMessage(data, st, okAgent, okClient, failAt) ==
  IF IsControl(data)
    THEN LET evt == ParseEvent(data)
         IN IF evt.js # "object" THEN st
            ELSE OnControl(evt, st, okAgent, okClient, failAt)
    ELSE [st EXCEPT !.clientLog = Append(@, Sent(ForwardBinary(data), okClient))]

\* the agent's SettingsApplied event, as a text frame or as a Buffer
IsAck(data) == data \in {TextMsg(TxtSettingsApplied), BinMsg(BytesSettingsApplied)}

\* lines 152-210: agentWS.on('message')
AgentMessage(msgs, maxMsgs) ==
  /\ phase = "running"
  /\ agentOpened
  /\ agentState \in {"OPEN", "CLOSING"}
  /\ nAgent < maxMsgs
  /\ \E data \in msgs, okAgent \in BOOLEAN, okClient \in Swallowed,
        failAt \in 0..(IF failsLeft > 0 THEN Len(preFrames) ELSE 0) :
       LET r == OnAgentMessage(data, Fields, okAgent, okClient, failAt)
           used == (FailedIn(r.agentLog) - FailedIn(agentLog))
                   + (FailedIn(r.clientLog) - FailedIn(clientLog))
       IN /\ used <= failsLeft
          /\ Throws(<< okAgent, okClient >>) + (IF failAt = 0 THEN 0 ELSE 1) = used
          /\ failsLeft' = failsLeft - used
          /\ nAgent' = nAgent + 1
          /\ lastData' = data
          /\ afterClose' = (afterClose \/ closed)
          /\ ackSeen' = (ackSeen \/ IsAck(data))
          /\ settingsSent' = r.settingsSent
          /\ settingsApplied' = r.settingsApplied
          /\ preFrames' = r.preFrames
          /\ pushed' = r.pushed
          /\ agentLog' = r.agentLog
          /\ clientLog' = r.clientLog
  /\ UNCHANGED << pvars, yvars, lvars, phase, dgKey, voiceParam, voiceId, agentOpened, throwAll, agentState, browserState, browserCloseCode, closed,
                  micBuf, keepaliveOn, meterOn, agentCloseCalls, terminateCalls,
                  nClient, streamPos, nTicks, agentErrored, browserErrored >>

\* safeClose without browserWS.terminate() (line 255)
safeClose_noTerminate(c) ==
  IF c.closed THEN c
  ELSE [c EXCEPT !.closed = TRUE,
                 !.keepaliveOn = FALSE,
                 !.meterOn = FALSE,
                 !.agentState = AfterClose(@),
                 !.agentCloseCalls = Append(@, CLOSE_NORMAL)]

\* safeClose doing nothing
safeClose_noop(c) == c

\* safeClose without the test of line 251
safeClose_noGuard(c) ==
  [c EXCEPT !.closed = TRUE,
            !.keepaliveOn = FALSE,
            !.meterOn = FALSE,
            !.agentState = AfterClose(@),
            !.agentCloseCalls = Append(@, CLOSE_NORMAL),
            !.browserState = IF @ = "OPEN" THEN "CLOSING" ELSE @,
            !.terminateCalls = @ + 1]

\* lines 250-256: safeClose(), on the fields it reads and writes
safeClose(c) ==
  IF c.closed THEN c
  ELSE [c EXCEPT !.closed = TRUE,
                 !.keepaliveOn = FALSE,
                 !.meterOn = FALSE,
                 !.agentState = AfterClose(@),
                 !.agentCloseCalls = Append(@, CLOSE_NORMAL),
                 !.browserState = IF @ = "OPEN" THEN "CLOSING" ELSE @,
                 !.terminateCalls = @ + 1]

CloseFields ==
  [closed |-> closed, keepaliveOn |-> keepaliveOn, meterOn |-> meterOn,
   agentState |-> agentState, agentCloseCalls |-> agentCloseCalls,
   browserState |-> browserState, terminateCalls |-> terminateCalls]

SetCloseFields(r) ==
  /\ closed' = r.closed
  /\ keepaliveOn' = r.keepaliveOn
  /\ meterOn' = r.meterOn
  /\ agentState' = r.agentState
  /\ agentCloseCalls' = r.agentCloseCalls
  /\ browserState' = r.browserState
  /\ terminateCalls' = r.terminateCalls

\* agentWS.on('close') without the status message of line 214
AgentClose_silent ==
  /\ phase = "running"
  /\ agentState \in {"OPEN", "CLOSING"}
  /\ SetCloseFields(safeClose([CloseFields EXCEPT !.agentState = "CLOSED",
                                                  !.keepaliveOn = FALSE,
                                                  !.meterOn = FALSE]))
  /\ UNCHANGED << pvars, yvars, lvars, phase, dgKey, voiceParam, voiceId, afterClose, agentOpened, throwAll, browserCloseCode, settingsSent, settingsApplied,
                  preFrames, micBuf, agentLog, clientLog, failsLeft, nAgent, lastData, ackSeen, nClient, streamPos,
                  pushed, nTicks, agentErrored, browserErrored >>

\* lines 212-216: agentWS.on('close')
AgentClose ==
  /\ phase = "running"
  /\ agentState \in {"OPEN", "CLOSING"}
  /\ \E ok \in Swallowed :
       /\ Throws(<< ok >>) <= failsLeft
       /\ failsLeft' = failsLeft - Throws(<< ok >>)
       /\ clientLog' = Append(clientLog, Sent(Status("Deepgram connection closed."), ok))
  /\ SetCloseFields(safeClose([CloseFields EXCEPT !.agentState = "CLOSED",
                                                  !.keepaliveOn = FALSE,
                                                  !.meterOn = FALSE]))
  /\ UNCHANGED << pvars, yvars, lvars, phase, dgKey, voiceParam, voiceId, afterClose, agentOpened, throwAll, browserCloseCode, settingsSent, settingsApplied,
                  preFrames, micBuf, agentLog, nAgent, lastData, ackSeen, nClient, streamPos,
                  pushed, nTicks, agentErrored, browserErrored >>

\* lines 217-219: agentWS.on('error'); the connection then closes
AgentError ==
  /\ phase = "running"
  /\ agentState \in {"CONNECTING", "OPEN", "CLOSING"}
  /\ ~agentErrored
  /\ agentErrored' = TRUE
  /\ agentState' = "CLOSING"
  /\ \E ok \in Swallowed :
       /\ Throws(<< ok >>) <= failsLeft
       /\ failsLeft' = failsLeft - Throws(<< ok >>)
       /\ clientLog' = Append(clientLog, Sent(Status("Deepgram error"), ok))
  /\ UNCHANGED << pvars, yvars, lvars, phase, dgKey, voiceParam, voiceId, afterClose, agentOpened, throwAll, browserState, browserCloseCode, closed, settingsSent,
                  settingsApplied, preFrames, micBuf, keepaliveOn, meterOn, agentLog,
                  agentCloseCalls, terminateCalls, nAgent, lastData, ackSeen, nClient, streamPos,
                  pushed, nTicks, browserErrored >>

\* the messages a client may deliver: a string, or binary audio of one of the sizes
ClientMsgs(sizes) ==
  {[isString |-> TRUE, len |-> 2]} \cup {[isString |-> FALSE, len |-> n] : n \in sizes}

\* browserWS.on('message') without the readyState test of line 230
BrowserMessage_noGuard(sizes, maxMsgs) ==
  /\ phase = "running"
  /\ browserState = "OPEN"
  /\ nClient < maxMsgs
  /\ \E m \in ClientMsgs(sizes) :
       /\ nClient' = nClient + 1
       /\ streamPos' = IF m.isString THEN streamPos ELSE streamPos + m.len
       /\ IF m.isString
            THEN UNCHANGED << micBuf, preFrames, pushed, agentLog, failsLeft >>
            ELSE LET mb == BufConcat(micBuf, Chunk(streamPos, m.len))
                     buffering == ShouldBuffer(settingsSent, settingsApplied)
                     n == IF buffering THEN 0 ELSE BufLen(mb) \div BYTES_PER_FRAME
                 IN \E fails \in FailSets(n, IF throwAll THEN failsLeft ELSE 0) :
                      LET r == FrameLoop(mb, preFrames, pushed, buffering, fails)
                      IN /\ micBuf' = r.micBuf
                         /\ preFrames' = r.preFrames
                         /\ pushed' = r.pushed
                         /\ agentLog' = agentLog \o r.sends
                         /\ failsLeft' = failsLeft - Cardinality(fails)
  /\ UNCHANGED << pvars, yvars, lvars, phase, dgKey, voiceParam, voiceId, afterClose, agentOpened, throwAll, agentState, browserState, browserCloseCode, closed,
                  settingsSent, settingsApplied, keepaliveOn, meterOn, clientLog,
                  agentCloseCalls, terminateCalls, nAgent, lastData, ackSeen, nTicks, agentErrored,
                  browserErrored >>

\* lines 226-245: browserWS.on('message')
BrowserMessage(sizes, maxMsgs) ==
  /\ phase = "running"
  /\ browserState = "OPEN"
  /\ nClient < maxMsgs
  /\ \E m \in ClientMsgs(sizes) :
       /\ nClient' = nClient + 1
       /\ streamPos' = IF m.isString THEN streamPos ELSE streamPos + m.len
       /\ IF m.isString \/ agentState # "OPEN"
            THEN UNCHANGED << micBuf, preFrames, pushed, agentLog, failsLeft >>
            ELSE LET mb == BufConcat(micBuf, Chunk(streamPos, m.len))
                     buffering == ShouldBuffer(settingsSent, settingsApplied)
                     n == IF buffering THEN 0 ELSE BufLen(mb) \div BYTES_PER_FRAME
                 IN \E fails \in FailSets(n, IF throwAll THEN failsLeft ELSE 0) :
                      LET r == FrameLoop(mb, preFrames, pushed, buffering, fails)
                      IN /\ micBuf' = r.micBuf
                         /\ preFrames' = r.preFrames
                         /\ pushed' = r.pushed
                         /\ agentLog' = agentLog \o r.sends
                         /\ failsLeft' = failsLeft - Cardinality(fails)
  /\ UNCHANGED << pvars, yvars, lvars, phase, dgKey, voiceParam, voiceId, afterClose, agentOpened, throwAll, agentState, browserState, browserCloseCode, closed,
                  settingsSent, settingsApplied, keepaliveOn, meterOn, clientLog,
                  agentCloseCalls, terminateCalls, nAgent, lastData, ackSeen, nTicks, agentErrored,
                  browserErrored >>

\* line 247: browserWS.on('close', safeClose)
BrowserClose ==
  /\ phase = "running"
  /\ browserState \in {"OPEN", "CLOSING"}
  /\ SetCloseFields(safeClose([CloseFields EXCEPT !.browserState = "CLOSED"]))
  /\ UNCHANGED << pvars, yvars, lvars, phase, dgKey, voiceParam, voiceId, afterClose, agentOpened, throwAll, browserCloseCode, settingsSent, settingsApplied,
                  preFrames, micBuf, agentLog, clientLog, nAgent, lastData, ackSeen, nClient,
                  streamPos, pushed, nTicks, failsLeft, agentErrored, browserErrored >>

\* line 248: browserWS.on('error', safeClose); the connection then closes
BrowserError ==
  /\ phase = "running"
  /\ browserState \in {"OPEN", "CLOSING"}
  /\ ~browserErrored
  /\ browserErrored' = TRUE
  /\ SetCloseFields(safeClose([CloseFields EXCEPT !.browserState = "CLOSING"]))
  /\ UNCHANGED << pvars, yvars, lvars, phase, dgKey, voiceParam, voiceId, afterClose, agentOpened, throwAll, browserCloseCode, settingsSent, settingsApplied,
                  preFrames, micBuf, agentLog, clientLog, nAgent, lastData, ackSeen, nClient,
                  streamPos, pushed, nTicks, failsLeft, agentErrored >>

\* pcm-player.js lines 8-14: a message arrives on the port, an ArrayBuffer of
\* n samples or something else
Enqueue(lens) ==
  /\ nEnq < MaxEnqueues
  /\ nEnq' = nEnq + 1
  /\ \E isBuffer \in BOOLEAN : \E n \in lens :
       LET f32 == [k \in 1..n |-> Len(enq) + k]
       IN /\ queue' = onmessage(queue, isBuffer, f32)
          /\ enq' = IF queue' = queue THEN enq ELSE enq \o f32
          /\ lastMsg' = [isBuffer |-> isBuffer, len |-> n]
  /\ UNCHANGED << svars, pvars, lvars, readIndex, lastOut, lastRet, outLog, nRender >>

\* pcm-player.js lines 17-38: process(inputs, outputs) with an output channel
\* of some length
Render(lens) ==
  /\ nRender < MaxRenders
  /\ nRender' = nRender + 1
  /\ \E frames \in lens :
       LET r == render(queue, readIndex, frames)
       IN /\ queue' = r.queue
          /\ readIndex' = r.readIndex
          /\ lastOut' = Output(r.out)
          /\ outLog' = outLog \o r.out
  /\ lastRet' = JsTrue
  /\ UNCHANGED << svars, pvars, lvars, enq, nEnq, lastMsg >>

\* pcm-player.js line 19: process without an output or without a channel
RenderNoOutput ==
  /\ nRender < MaxRenders
  /\ nRender' = nRender + 1
  /\ lastOut' = NoOutput
  /\ lastRet' = JsTrue
  /\ UNCHANGED << svars, pvars, lvars, queue, readIndex, enq, outLog, nEnq, lastMsg >>

\* ------------------------------------------------------------------------
\* The second definition of handleBrowserDemoWS (src/index.js lines 472-609),
\* on the same session fields; it has no metering timer.
\* ------------------------------------------------------------------------
\* lines 472-516: the handler up to the creation of the keepalive timer
HandleConnection2 ==
  /\ phase = "new"
  /\ \E ok \in Swallowed :
       /\ Throws(<< ok >>) <= failsLeft
       /\ failsLeft' = failsLeft - Throws(<< ok >>)
       /\ IF MissingKey(dgKey)
            THEN /\ clientLog' = Append(clientLog,
                                        Sent(Status("Missing DEEPGRAM_API_KEY"), ok))
                 /\ browserState' = "CLOSING"
                 /\ browserCloseCode' = CLOSE_INTERNAL
                 /\ phase' = "rejected"
                 /\ UNCHANGED << agentState, keepaliveOn >>
            ELSE /\ agentState' = "CONNECTING"
                 /\ clientLog' = Append(clientLog, Sent(Status("demo-ws-connected"), ok))
                 /\ keepaliveOn' = TRUE
                 /\ phase' = "running"
                 /\ UNCHANGED << browserState, browserCloseCode >>
  /\ voiceId' = ParseVoiceId(voiceParam)
  /\ UNCHANGED << pvars, yvars, lvars, dgKey, voiceParam, afterClose, agentOpened, throwAll, closed, settingsSent, settingsApplied, preFrames, micBuf,
                  meterOn, agentLog, agentCloseCalls, terminateCalls, nAgent, lastData, ackSeen, nClient,
                  streamPos, pushed, nTicks, agentErrored, browserErrored >>

\* line 554: agentWS.on('open')
AgentOpen2 ==
  /\ phase = "running"
  /\ agentState = "CONNECTING"
  /\ agentState' = "OPEN"
  /\ agentOpened' = TRUE
  /\ \E okAgent \in BOOLEAN, okClient \in Swallowed :
       /\ Throws(<< okAgent, okClient >>) <= failsLeft
       /\ failsLeft' = failsLeft - Throws(<< okAgent, okClient >>)
       /\ LET r == sendSettings(settingsSent, agentLog, clientLog, okAgent, okClient)
          IN /\ settingsSent' = r.settingsSent
             /\ agentLog' = r.agentLog
             /\ clientLog' = r.clientLog
  /\ UNCHANGED << pvars, yvars, lvars, phase, dgKey, voiceParam, voiceId, afterClose, throwAll, browserState, browserCloseCode, closed, settingsApplied,
                  preFrames, micBuf, keepaliveOn, meterOn, agentCloseCalls,
                  terminateCalls, nAgent, lastData, ackSeen, nClient, streamPos, pushed, nTicks,
                  agentErrored, browserErrored >>

\* lines 555-578: the handler of an agent message; okInfo, okText and okStatus
\* are the outcomes of the browserWS.send of sendSettings, of line 570 and of
\* lines 572-573
OnAgentMessage2(data, st, okAgent, okInfo, okText, okStatus, failAt) ==
  IF IsControl(data)
    THEN LET evt == ParseEvent(data)
             welcomed ==
               IF evt.type = "Welcome"
                 THEN LET r == sendSettings(st.settingsSent, st.agentLog, st.clientLog,
                                            okAgent, okInfo)
                      IN [st EXCEPT !.settingsSent = r.settingsSent,
                                    !.agentLog = r.agentLog, !.clientLog = r.clientLog]
                 ELSE st
             applied ==
               IF evt.type = "SettingsApplied" THEN OnSettingsApplied(welcomed, failAt)
               ELSE welcomed
             texted ==
               IF TextOf(evt) # ""
                 THEN [applied EXCEPT !.clientLog = Append(@, Sent(TranscriptPayload(evt), okText))]
                 ELSE applied
             warned ==
               IF evt.type = "AgentWarning"
                 THEN [texted EXCEPT !.clientLog = Append(@, Sent(Status(WarningText(evt)), okStatus))]
                 ELSE texted
         IN IF evt.js # "object" THEN st
            ELSE IF evt.type \in {"AgentError", "Error"}
              THEN [warned EXCEPT !.clientLog = Append(@, Sent(Status(ErrorText(evt)), okStatus))]
              ELSE warned
    ELSE [st EXCEPT !.clientLog = Append(@, Sent(ForwardBinary(data), okText))]

\* lines 555-578: agentWS.on('message')
AgentMessage2(msgs, maxMsgs) ==
  /\ phase = "running"
  /\ agentOpened
  /\ agentState \in {"OPEN", "CLOSING"}
  /\ nAgent < maxMsgs
  /\ \E data \in msgs, okAgent \in BOOLEAN, okInfo, okText, okStatus \in Swallowed,
        failAt \in 0..(IF failsLeft > 0 THEN Len(preFrames) ELSE 0) :
       LET r == OnAgentMessage2(data, Fields, okAgent, okInfo, okText, okStatus, failAt)
           used == (FailedIn(r.agentLog) - FailedIn(agentLog))
                   + (FailedIn(r.clientLog) - FailedIn(clientLog))
       IN /\ used <= failsLeft
          /\ Throws(<< okAgent, okInfo, okText, okStatus >>)
               + (IF failAt = 0 THEN 0 ELSE 1) = used
          /\ failsLeft' = failsLeft - used
          /\ nAgent' = nAgent + 1
          /\ lastData' = data
          /\ afterClose' = (afterClose \/ closed)
          /\ ackSeen' = (ackSeen \/ IsAck(data))
          /\ settingsSent' = r.settingsSent
          /\ settingsApplied' = r.settingsApplied
          /\ preFrames' = r.preFrames
          /\ pushed' = r.pushed
          /\ agentLog' = r.agentLog
          /\ clientLog' = r.clientLog
  /\ UNCHANGED << pvars, yvars, lvars, phase, dgKey, voiceParam, voiceId, agentOpened, throwAll, agentState, browserState, browserCloseCode, closed,
                  micBuf, keepaliveOn, meterOn, agentCloseCalls, terminateCalls,
                  nClient, streamPos, nTicks, agentErrored, browserErrored >>

\* ------------------------------------------------------------------------
\* The handlers of setupWebDemoLive (src/web-demo-live.js)
\* ------------------------------------------------------------------------
\* lines 45-69: the 'connection' handler up to the keepalive timer; the
\* handlers of lines 71-175 are registered only on the accepted path
LiveConnection ==
  /\ phase = "new"
  /\ IF ~isOriginAllowed(origin, allowedOrigins)
       THEN /\ browserState' = "CLOSING"
            /\ browserCloseCode' = CLOSE_POLICY
            /\ phase' = "rejected"
            /\ UNCHANGED << agentState, keepaliveOn >>
       ELSE /\ agentState' = "CONNECTING"
            /\ keepaliveOn' = TRUE
            /\ phase' = "live"
            /\ UNCHANGED << browserState, browserCloseCode >>
  /\ UNCHANGED << pvars, yvars, lvars, dgKey, voiceParam, voiceId, afterClose, agentOpened, throwAll, closed, settingsSent,
                  settingsApplied, preFrames, micBuf, meterOn, agentLog, clientLog, failsLeft,
                  agentCloseCalls, terminateCalls, nAgent, lastData, ackSeen, nClient,
                  streamPos, pushed, nTicks, agentErrored, browserErrored >>

\* lines 71-89: agentWS.on('open')
LiveAgentOpen ==
  /\ phase = "live"
  /\ agentState = "CONNECTING"
  /\ agentState' = "OPEN"
  /\ agentOpened' = TRUE
  /\ \E ok \in BOOLEAN :
       /\ Throws(<< ok >>) <= failsLeft
       /\ failsLeft' = failsLeft - Throws(<< ok >>)
       /\ agentLog' = Append(agentLog, Sent(SettingsMsg, ok))
       /\ settingsSent' = ok
  /\ UNCHANGED << pvars, yvars, lvars, phase, dgKey, voiceParam, voiceId, afterClose, throwAll, browserState, browserCloseCode, closed,
                  settingsApplied, preFrames, micBuf, keepaliveOn, meterOn, clientLog,
                  agentCloseCalls, terminateCalls, nAgent, lastData, ackSeen, nClient,
                  streamPos, pushed, nTicks, agentErrored, browserErrored >>

\* lines 91-155: the handler of an agent message
LiveOnAgentMessage(data, st, okClient, failAt) ==
  LET sniffed == ~data.isBuf \/ (data.bytes # << >> /\ data.bytes[1] = LBRACE)
      evt == IF sniffed THEN ParseEvent(data) ELSE ParseThrows
      role == toLowerCase(JsOr(JsOr(evt.role, evt.speaker), ""))
      text == JsOr(JsOr(JsOr(evt.content, evt.text), evt.transcript), "")
  IN IF LiveFallsThrough(evt)
       THEN [st EXCEPT !.clientLog =
               Append(@, Sent(IF data.isBuf THEN ClientBinary(data.bytes)
                              ELSE [ClientBinary(<< >>) EXCEPT !.kind = "string",
                                                                !.text = data.str],
                              okClient))]
       ELSE CASE evt.type = "SettingsApplied" ->
                   OnSettingsApplied([st EXCEPT !.clientLog =
                                        Append(@, Sent(SettingsInfo, okClient))], failAt)
              [] evt.type \in {"Transcript", "ConversationText", "History",
                               "UserTranscript", "UserResponse"} ->
                   IF trim(text) = "" THEN st
                   ELSE [st EXCEPT !.clientLog =
                           Append(@, Sent(TranscriptMsg(IF role = "user" THEN "User"
                                                        ELSE "Agent",
                                                        text, ~Falsy(evt.partial)),
                                          okClient))]
              [] OTHER -> st

\* lines 91-155: agentWS.on('message')
LiveAgentMessage(msgs, maxMsgs) ==
  /\ phase = "live"
  /\ agentOpened
  /\ agentState \in {"OPEN", "CLOSING"}
  /\ nAgent < maxMsgs
  /\ \E data \in msgs, okClient \in Swallowed,
        failAt \in 0..(IF failsLeft > 0 THEN Len(preFrames) ELSE 0) :
       LET r == LiveOnAgentMessage(data, Fields, okClient, failAt)
           used == (FailedIn(r.agentLog) - FailedIn(agentLog))
                   + (FailedIn(r.clientLog) - FailedIn(clientLog))
       IN /\ used <= failsLeft
          /\ Throws(<< okClient >>) + (IF failAt = 0 THEN 0 ELSE 1) = used
          /\ failsLeft' = failsLeft - used
          /\ nAgent' = nAgent + 1
          /\ lastData' = data
          /\ afterClose' = (afterClose \/ closed)
          /\ ackSeen' = (ackSeen \/ IsAck(data))
          /\ settingsApplied' = r.settingsApplied
          /\ preFrames' = r.preFrames
          /\ pushed' = r.pushed
          /\ agentLog' = r.agentLog
          /\ clientLog' = r.clientLog
  /\ UNCHANGED << pvars, yvars, lvars, phase, dgKey, voiceParam, voiceId, agentOpened, throwAll, agentState, browserState, browserCloseCode, closed,
                  settingsSent, micBuf, keepaliveOn, meterOn, agentCloseCalls, terminateCalls,
                  nClient, streamPos, nTicks, agentErrored, browserErrored >>

\* lines 157-166: client.on('message'), for a message of len bytes
LiveClientMessage(sizes, maxMsgs) ==
  /\ phase = "live"
  /\ browserState = "OPEN"
  /\ nClient < maxMsgs
  /\ \E len \in sizes, ok \in Swallowed :
       LET data == Chunk(streamPos, len)
       IN /\ nClient' = nClient + 1
          /\ streamPos' = streamPos + len
          /\ IF agentState # "OPEN" \/ ~settingsSent
               THEN ok /\ UNCHANGED << agentLog, preFrames, pushed, failsLeft >>
               ELSE IF settingsApplied
                 THEN /\ Throws(<< ok >>) <= failsLeft
                      /\ failsLeft' = failsLeft - Throws(<< ok >>)
                      /\ agentLog' = Append(agentLog, Sent(Audio(data), ok))
                      /\ UNCHANGED << preFrames, pushed >>
                 ELSE /\ ok
                      /\ preFrames' = IF Len(preFrames) + 1 > MAX_PRE_ROLL
                                      THEN Tail(Append(preFrames, data))
                                      ELSE Append(preFrames, data)
                      /\ pushed' = Append(pushed, data)
                      /\ UNCHANGED << agentLog, failsLeft >>
  /\ UNCHANGED << pvars, yvars, lvars, phase, dgKey, voiceParam, voiceId, afterClose, agentOpened, throwAll, agentState, browserState, browserCloseCode, closed,
                  settingsSent, settingsApplied, micBuf, keepaliveOn, meterOn, clientLog,
                  agentCloseCalls, terminateCalls, nAgent, lastData, ackSeen, nTicks, agentErrored,
                  browserErrored >>

\* lines 58-75: process(inputs, outputs), for an input block of n samples
ProcessBlock(sizes) ==
  /\ nBlocks < MaxBlocks
  /\ nBlocks' = nBlocks + 1
  /\ \E n \in sizes :
       LET input == [i \in 1..n |-> SampleAt(signal, fed + i - 1)]
       IN /\ fed' = fed + n
          /\ IF Len(input) > 0
               THEN LET r == resampleBlock(inBuf, pos, inRate, input)
                    IN /\ inBuf' = r.inBuf
                       /\ pos' = r.pos
                       /\ resampled' = resampled \o r.out
                       /\ lastRead' = r.top
                       /\ lastLen' = r.len
                       /\ IF Len(r.out) > 0
                            THEN LET f == flushFrames(outFloat \o r.out)
                                 IN /\ outFloat' = f.outFloat
                                    /\ posted' = posted \o f.frames
                            ELSE UNCHANGED << outFloat, posted >>
               ELSE UNCHANGED << inBuf, pos, resampled, outFloat, posted, lastRead, lastLen >>
  /\ UNCHANGED << svars, yvars, lvars, inRate, signal >>

\* ------------------------------------------------------------------------
\* Specifications
\* ------------------------------------------------------------------------
WelcomeMsgs == {TextMsg(TxtWelcome), BinMsg(BytesWelcome)}
AckMsgs == {TextMsg(TxtSettingsApplied), BinMsg(BytesSettingsApplied)}

HandshakeMsgs == {TextMsg(TxtWelcome), TextMsg(TxtSettingsApplied), BinMsg(BytesAudio)}

ClientSizes == {960}

Next ==
  \/ HandleConnection
  \/ KeepaliveTick
  \/ MeterTick
  \/ AgentOpen
  \/ AgentMessage(HandshakeMsgs, MaxAgentMsgs)
  \/ AgentClose
  \/ AgentError
  \/ BrowserMessage(ClientSizes, MaxClientMsgs)
  \/ BrowserClose
  \/ BrowserError

Spec == Init /\ [][Next]_vars

\* The relay of agent messages to the client, over every kind of agent message
AudioMsgs == {BinMsg(BytesAudio), BinMsg(BytesAudioBraceSecond), BinMsg(BytesEmpty)}

RelayMsgs ==
  WelcomeMsgs \cup AckMsgs \cup AudioMsgs
  \cup {TextMsg(TxtTranscript), TextMsg(TxtAgentFinal), TextMsg(TxtEmptyText),
        TextMsg(TxtWarning), TextMsg(TxtError), TextMsg(TxtUnknown), TextMsg(TxtObject),
        TextMsg(TxtNull), TextMsg(TxtGarbage), BinMsg(BytesObject),
        BinMsg(BytesBraceNul)}

NextRelay ==
  \/ HandleConnection
  \/ AgentOpen
  \/ AgentMessage(RelayMsgs, RelayAgentMsgs)
  \/ BrowserMessage(ClientSizes, MaxClientMsgs)
  \/ AgentClose
  \/ BrowserClose

SpecRelay == Init /\ [][NextRelay]_vars

\* The pre-roll buffer at its capacity: a client message may carry as many
\* frames as the buffer holds, and no send throws
PrerollSizes == {BYTES_PER_FRAME, MAX_PRE_FRAMES * BYTES_PER_FRAME}

InitPreroll == InitWith(0, FALSE)

NextPreroll ==
  \/ HandleConnection
  \/ AgentOpen
  \/ AgentMessage(AckMsgs, MaxAgentMsgs)
  \/ BrowserMessage(PrerollSizes, PrerollClientMsgs)
  \/ BrowserClose

SpecPreroll == InitPreroll /\ [][NextPreroll]_vars

\* The end of a session: every send may throw, and both connections may close
\* or fail at any moment
CloseMsgs == {TextMsg(TxtSettingsApplied), BinMsg(BytesAudio)}

CloseSizes == {BYTES_PER_FRAME}

InitClose == InitWith(MaxSendFailures, TRUE)

NextClose ==
  \/ HandleConnection
  \/ KeepaliveTick
  \/ AgentOpen
  \/ AgentMessage(CloseMsgs, CloseAgentMsgs)
  \/ BrowserMessage(CloseSizes, CloseClientMsgs)
  \/ AgentClose
  \/ AgentError
  \/ BrowserClose
  \/ BrowserError

SpecClose == InitClose /\ [][NextClose]_vars

\* agentWS emits 'close' after it has opened or failed
SpecCloseLive == SpecClose /\ WF_vars(AgentClose)

\* The framing of client audio: client messages of sizes around the frame size
FramingSizes == {1, 639, 640, 641, 1281}

NextFraming ==
  \/ HandleConnection
  \/ AgentOpen
  \/ AgentMessage({TextMsg(TxtSettingsApplied)}, CloseAgentMsgs)
  \/ BrowserMessage(FramingSizes, FramingClientMsgs)

SpecFraming == Init /\ [][NextFraming]_vars

\* The voice of a session, over the values of the voiceId parameter
InitVoice == InitSession(0, FALSE, VoiceParams)

NextVoice ==
  \/ HandleConnection
  \/ AgentOpen
  \/ AgentClose
  \/ BrowserClose

SpecVoice == InitVoice /\ [][NextVoice]_vars

\* The order of the relay: handshakes of up to OrderAgentMsgs agent messages
NextOrder ==
  \/ HandleConnection
  \/ AgentOpen
  \/ AgentMessage(HandshakeMsgs, OrderAgentMsgs)
  \/ BrowserMessage(CloseSizes, MaxClientMsgs)

SpecOrder == Init /\ [][NextOrder]_vars

\* The capture worklet: blocks of the render quantum (128) and shorter ones
BlockSizes == {0, 1, 2, 128}

InitProcessor ==
  /\ SessionInit(0, FALSE, {VoiceAbsent})
  /\ dgKey
  /\ ProcInit(InRates, Signals)
  /\ PlayerInit
  /\ origin = ""
  /\ allowedOrigins = Undef

NextProcessor == ProcessBlock(BlockSizes)

SpecProcessor == InitProcessor /\ [][NextProcessor]_vars

\* the events of the transcript branch, of every type
TranscriptMsgs ==
  {TextMsg(e.str) : e \in TranscriptEvents}
  \cup {TextMsg(TxtTranscript), TextMsg(TxtAgentFinal), TextMsg(TxtEmptyText)}

NextTranscript ==
  \/ HandleConnection
  \/ AgentOpen
  \/ AgentMessage(TranscriptMsgs, MaxAgentMsgs)

SpecTranscript == Init /\ [][NextTranscript]_vars

\* the warnings and errors of the agent, after any step of the handshake
StatusMsgs ==
  {TextMsg(e.str) : e \in StatusEvents}
  \cup {TextMsg(TxtWarning), TextMsg(TxtError), TextMsg(TxtSettingsApplied)}

NextStatus ==
  \/ HandleConnection
  \/ AgentOpen
  \/ AgentMessage(StatusMsgs, MaxAgentMsgs)
  \/ BrowserMessage(ClientSizes, CloseClientMsgs)

SpecStatus == InitClose /\ [][NextStatus]_vars

\* the second definition of the handler, with control events of every kind
SecondMsgs ==
  StatusMsgs \cup WelcomeMsgs
  \cup {TextMsg(TxtTranscript), TextMsg(TxtEmptyText), TextMsg(TxtUnknown),
        TextMsg(TxtObject), TextMsg(TxtNull), TextMsg(TxtGarbage), BinMsg(BytesAudio)}

NextSecond ==
  \/ HandleConnection2
  \/ AgentOpen2
  \/ AgentMessage2(SecondMsgs, MaxAgentMsgs)

SpecSecond == Init /\ [][NextSecond]_vars

\* a session of one of the two bridges, handleBrowserDemoWS or
\* setupWebDemoLive, with the same agent messages
InitLive ==
  /\ SessionInit(MaxSendFailures, FALSE, {VoiceAbsent})
  /\ ProcInit({48000}, {"ramp"})
  /\ PlayerInit
  /\ origin \in {"", "https://a.example", "https://evil.example"}
  /\ allowedOrigins \in {Undef, "", " , ", "https://a.example",
                          "https://a.example, https://b.example"}

NextLive ==
  LET msgs == {BinMsg(BytesBraceNul), BinMsg(BytesAudio), BinMsg(BytesObject),
               TextMsg(TxtSettingsApplied), TextMsg(TxtTranscript), TextMsg(TxtGarbage)}
  IN \/ HandleConnection
     \/ AgentOpen
     \/ AgentMessage(msgs, CloseAgentMsgs)
     \/ LiveConnection
     \/ LiveAgentOpen
     \/ LiveAgentMessage(msgs, CloseAgentMsgs)
     \/ LiveClientMessage({BYTES_PER_FRAME}, CloseClientMsgs)

SpecLive == InitLive /\ [][NextLive]_vars

\* every send may throw: transcripts, warnings, audio and the handshake from
\* the agent, audio of two frames and a byte from the client
SendFailMsgs ==
  WelcomeMsgs \cup AckMsgs
  \cup {BinMsg(BytesAudio), TextMsg(TxtTranscript), TextMsg(TxtWarning)}

SendFailSizes == {2 * BYTES_PER_FRAME + 1}

NextSendFail ==
  \/ HandleConnection
  \/ KeepaliveTick
  \/ AgentOpen
  \/ AgentMessage(SendFailMsgs, CloseAgentMsgs)
  \/ BrowserMessage(SendFailSizes, CloseClientMsgs)
  \/ AgentClose
  \/ AgentError

SpecSendFail == InitClose /\ [][NextSendFail]_vars

\* the playback worklet alone
ChunkLens == {0, 1, 2, 3}
OutputLens == {1, 2, 4}

InitPlayer ==
  /\ SessionInit(0, FALSE, {VoiceAbsent})
  /\ dgKey
  /\ ProcInit({48000}, {"ramp"})
  /\ PlayerInit
  /\ origin = ""
  /\ allowedOrigins = Undef

NextPlayer ==
  \/ Enqueue(ChunkLens)
  \/ Render(OutputLens)
  \/ RenderNoOutput

SpecPlayer == InitPlayer /\ [][NextPlayer]_vars

\* ------------------------------------------------------------------------
\* Properties
\* ------------------------------------------------------------------------
AudioSends(log) == {i \in 1..Len(log) : log[i].msg.type = "audio"}
SettingsOk(log) == {i \in 1..Len(log) : log[i].msg.type = "Settings" /\ log[i].ok}
NewEntries(old, new) == SubSeq(new, Len(old) + 1, Len(new))
Extends(old, new) == Len(old) <= Len(new) /\ SubSeq(new, 1, Len(old)) = old
LastN(seq, n) == IF Len(seq) <= n THEN seq ELSE SubSeq(seq, Len(seq) - n + 1, Len(seq))
AgentDelivers(msgs) == nAgent' = nAgent + 1 /\ lastData' \in msgs

\* C1: no audio frame is sent on the agent connection before a SettingsApplied
\* event has been delivered by the agent, whatever the interleaving of open,
\* Welcome, SettingsApplied, client audio, keepalive ticks and throwing sends.
C1_NoAudioBeforeAck == AudioSends(agentLog) # {} => ackSeen

C1_Witness == ackSeen /\ AudioSends(agentLog) # {} /\ nTicks > 0

\* C2 as claimed: once the agent connection has opened, Settings has been sent
\* successfully exactly once.
C2_ExactlyOnceAtOpen == agentOpened => Cardinality(SettingsOk(agentLog)) = 1

\* C2 amended: Settings is sent successfully at most once in a session and never
\* before the agent connection opens; the first send on the agent connection is
\* the Settings send made on open, and when that send does not throw it is the
\* only successful one; settingsSent is true exactly when a Settings send succeeded.
C2_AtMostOnce ==
  /\ Cardinality(SettingsOk(agentLog)) <= 1
  /\ settingsSent <=> Cardinality(SettingsOk(agentLog)) = 1
  /\ ~agentOpened => agentLog = << >>
  /\ agentOpened =>
       /\ agentLog # << >>
       /\ agentLog[1].msg = SettingsMsg
       /\ agentLog[1].ok => SettingsOk(agentLog) = {1}

C2_Witness ==
  /\ agentLog # << >>
  /\ ~agentLog[1].ok
  /\ \E i \in SettingsOk(agentLog) : i > 1

\* C3: a Welcome event delivered while settingsSent is true sends nothing to the
\* agent or to the client and changes no session state; delivered while
\* settingsSent is false it makes one send of Settings to the agent (and reports
\* it to the client), and settingsSent becomes true exactly when that send succeeds.
C3_WelcomeIdempotent ==
  [][AgentDelivers(WelcomeMsgs) =>
       IF settingsSent
         THEN /\ agentLog' = agentLog
              /\ clientLog' = clientLog
              /\ UNCHANGED << settingsSent, settingsApplied, preFrames, micBuf, closed,
                              keepaliveOn, meterOn, agentState, browserState,
                              agentCloseCalls, terminateCalls >>
         ELSE /\ Len(agentLog') = Len(agentLog) + 1
              /\ Extends(agentLog, agentLog')
              /\ agentLog'[Len(agentLog')].msg = SettingsMsg
              /\ settingsSent' = agentLog'[Len(agentLog')].ok
              /\ Len(clientLog') = Len(clientLog) + 1
              /\ Extends(clientLog, clientLog')
              /\ UNCHANGED << settingsApplied, preFrames, micBuf, closed >>]_vars

C3_Witness ==
  /\ lastData \in WelcomeMsgs
  /\ settingsSent
  /\ Len(agentLog) = 1
  /\ agentLog[1] = Sent(SettingsMsg, TRUE)

\* C4: a frame that arrives after Settings was sent and before SettingsApplied is
\* put on preFrames and not sent; when SettingsApplied arrives, the frames of
\* preFrames are all sent to the agent, in their order, before any later frame.
FramesOf(log) == [i \in 1..Len(log) |-> log[i].msg.frame]

C4_PrerollThenFlush ==
  [][/\ (nClient' = nClient + 1 /\ settingsSent /\ ~settingsApplied) =>
          /\ agentLog' = agentLog
          /\ Extends(pushed, pushed')
     /\ (AgentDelivers(AckMsgs) /\ settingsSent /\ ~settingsApplied) =>
          /\ Extends(agentLog, agentLog')
          /\ FramesOf(NewEntries(agentLog, agentLog')) = preFrames]_vars

\* C5: preFrames never holds more than MAX_PRE_FRAMES frames, and it holds the
\* MAX_PRE_FRAMES most recent of the frames pushed since it was last cleared
\* (all of them when there are no more), in the order of their arrival.
C5_PrerollBounded ==
  /\ Len(preFrames) <= MAX_PRE_FRAMES
  /\ preFrames = LastN(pushed, MAX_PRE_FRAMES)

C5_Witness == Len(pushed) > MAX_PRE_FRAMES /\ Len(preFrames) = MAX_PRE_FRAMES

\* C6: the flush on SettingsApplied sends every frame of preFrames to the agent,
\* in order, and leaves preFrames empty, also when one of the sends throws.
C6_FlushReplaysAll ==
  [][AgentDelivers(AckMsgs) =>
       /\ preFrames' = << >>
       /\ Len(agentLog') = Len(agentLog) + Len(preFrames)
       /\ \A i \in 1..Len(preFrames) :
            agentLog'[Len(agentLog) + i].msg = Audio(preFrames[i])]_vars

ClaimedControl(data) == data.isBuf => (data.bytes # << >> /\ Head(data.bytes) = 123)

C8_ControlOrAudio ==
  [][AgentDelivers(RelayMsgs) =>
       IF ClaimedControl(lastData')
         THEN /\ Extends(clientLog, clientLog')
              /\ \A i \in 1..Len(NewEntries(clientLog, clientLog')) :
                   NewEntries(clientLog, clientLog')[i].msg.kind = "text"
              /\ lastData' \in AckMsgs => settingsApplied'
              /\ lastData' \in WelcomeMsgs => (settingsSent \/ agentLog' # agentLog)
         ELSE /\ Len(clientLog') = Len(clientLog) + 1
              /\ Extends(clientLog, clientLog')
              /\ clientLog'[Len(clientLog')].msg = ClientBinary(lastData'.bytes)]_vars

C8_Witness ==
  /\ lastData = BinMsg(BytesSettingsApplied)
  /\ settingsApplied
  /\ nAgent = 1
  /\ \A i \in 1..Len(clientLog) : clientLog[i].msg.kind = "text"

\* C9: the event {type:'Transcript', role:'user', text:'hello', partial:false}
\* makes the session send the client exactly
\* {type:'transcript', role:'User', text:'hello', partial:false}.
C9_TranscriptScenario ==
  [][AgentDelivers({TextMsg(TxtTranscript)}) =>
       \E ok \in BOOLEAN :
         clientLog' = Append(clientLog, Sent(TranscriptMsg("User", "hello", FALSE), ok))]_vars

\* C10: when DEEPGRAM_API_KEY is absent the session sends the client one status
\* message and closes the client connection with code 1011, and it never has an
\* agent connection, a timer or a handler: nothing else is ever sent or handled.
C10_MissingKey ==
  (~dgKey /\ phase # "new") =>
    /\ phase = "rejected"
    /\ Len(clientLog) = 1
    /\ clientLog[1].msg = Status("Missing DEEPGRAM_API_KEY")
    /\ browserCloseCode = 1011
    /\ browserState = "CLOSING"
    /\ agentState = "NONE"
    /\ ~agentOpened
    /\ ~keepaliveOn
    /\ ~meterOn
    /\ agentLog = << >>
    /\ agentCloseCalls = << >>
    /\ nAgent = 0 /\ nClient = 0 /\ nTicks = 0

C10_Witness == ~dgKey /\ phase = "rejected" /\ browserCloseCode = 1011

\* C11: whatever close and error events reach the session, and whichever of
\* the sends of their handlers throw, agentWS.close is called at most once and
\* browserWS.terminate at most once (both exactly once when the session has
\* closed), and the handler of a close event always runs to its end: a
\* connection that has emitted 'close' belongs to a session that has closed.
C11_CloseOnce ==
  /\ Len(agentCloseCalls) <= 1
  /\ terminateCalls <= 1
  /\ closed <=> (Len(agentCloseCalls) = 1 /\ terminateCalls = 1)
  /\ agentState = "CLOSED" => closed
  /\ (phase = "running" /\ browserState = "CLOSED") => closed

C11_Witness ==
  /\ browserErrored
  /\ browserState = "CLOSED"
  /\ agentState = "CLOSED"
  /\ clientLog[Len(clientLog)] = Sent(Status("Deepgram connection closed."), FALSE)
  /\ Len(agentCloseCalls) = 1
  /\ terminateCalls = 1

\* C12: when the client connection closes, agentWS.close is called with code
\* 1000; when the agent connection closes, the client connection is asked to
\* close with code 1000; in both cases the keepalive timer is cancelled.
C12_SymmetricClose ==
  [][/\ (browserState' = "CLOSED" /\ browserState # "CLOSED" /\ ~closed) =>
          /\ agentCloseCalls' = Append(agentCloseCalls, 1000)
          /\ ~keepaliveOn'
     /\ (agentState' = "CLOSED" /\ agentState # "CLOSED" /\ ~closed) =>
          /\ browserCloseCode' = 1000
          /\ ~keepaliveOn']_vars

\* WebSocket.send puts data on the connection only when it is called while
\* readyState is OPEN and does not throw
OnWire(readyState, entry) == readyState = "OPEN" /\ entry.ok

KeepAlives(log) == {i \in 1..Len(log) : log[i].msg = KeepAliveMsg}

C14_KeepAlive ==
  [][/\ closed' => ~keepaliveOn'
     /\ KeepAlives(agentLog') # KeepAlives(agentLog) =>
          /\ agentState = "OPEN"
          /\ keepaliveOn
          /\ ~closed
          /\ nTicks' = nTicks + 1]_vars

C14_Witness ==
  /\ closed
  /\ ~keepaliveOn
  /\ KeepAlives(agentLog) # {}

\* the positions, in the client's byte stream, of the bytes of a Buffer
RECURSIVE Bytes(_)
Bytes(b) ==
  IF b = << >> THEN << >>
  ELSE [i \in 1..Head(b).len |-> Head(b).off + i - 1] \o Bytes(Tail(b))

RECURSIVE Flatten(_)
Flatten(frames) ==
  IF frames = << >> THEN << >> ELSE Bytes(Head(frames)) \o Flatten(Tail(frames))

\* C15: for a binary client message handled while agentWS is OPEN, every frame
\* it makes the session buffer or forward is 640 bytes long, the frames followed
\* by the new carry buffer are, byte for byte, the old carry buffer followed by
\* the message, and the new carry buffer is shorter than 640 bytes.
C15_Framing ==
  [][(nClient' = nClient + 1 /\ streamPos' > streamPos /\ agentState = "OPEN") =>
       LET frames == NewEntries(pushed, pushed')
                     \o FramesOf(NewEntries(agentLog, agentLog'))
       IN /\ \A i \in 1..Len(frames) : Len(Bytes(frames[i])) = 640
          /\ Flatten(frames) \o Bytes(micBuf')
               = Bytes(micBuf) \o [i \in 1..(streamPos' - streamPos) |-> streamPos + i - 1]
          /\ Len(Bytes(micBuf')) < 640
          /\ Len(preFrames') <= Len(pushed')
          /\ \A i \in 1..Len(preFrames') :
               preFrames'[i] = pushed'[Len(pushed') - Len(preFrames') + i]]_vars

C15_Witness ==
  /\ nClient = FramingClientMsgs
  /\ streamPos = 1281 + 639 + 1
  /\ Len(Bytes(micBuf)) = 1
  /\ AudioSends(agentLog) # {}
  /\ agentLog[Len(agentLog)].msg.type = "audio"

\* C16: the voice identifier of a session is one of 1, 2, 3: the value of the
\* voiceId parameter when that is "1", "2" or "3", and the default 2 when the
\* parameter is absent, is not a number or is a number outside {1, 2, 3}.
C16_VoiceDefault ==
  phase # "new" =>
    /\ voiceId \in {1, 2, 3}
    /\ voiceParam = "1" => voiceId = 1
    /\ voiceParam = "2" => voiceId = 2
    /\ voiceParam = "3" => voiceId = 3
    /\ voiceParam \in {VoiceAbsent, "", "abc", "0", "4", "-1"} => voiceId = 2

\* C17: the agent connection is created once, by the start of the session; a
\* connection that is closing or closed never opens or connects again; after
\* agentWS has emitted 'close' the session makes no send call on it, and after
\* it has emitted 'error' nothing more goes out on it.
C17_NoResurrection ==
  [][/\ (agentState' = "CONNECTING" /\ agentState # "CONNECTING") =>
          (phase = "new" /\ agentState = "NONE")
     /\ agentState \in {"CLOSING", "CLOSED"} => agentState' \in {"CLOSING", "CLOSED"}
     /\ agentState = "CLOSED" => agentLog' = agentLog
     /\ agentErrored =>
          \A i \in 1..Len(NewEntries(agentLog, agentLog')) :
            ~OnWire(agentState, NewEntries(agentLog, agentLog')[i])]_vars

C17_Witness ==
  /\ agentErrored
  /\ agentState = "CLOSED"
  /\ closed
  /\ agentOpened
  /\ Len(agentCloseCalls) = 1
  /\ nClient > 0

FrameOff(entry) == entry.msg.frame[1].off

AgentOrder ==
  \A i, j \in AudioSends(agentLog) : i < j => FrameOff(agentLog[i]) < FrameOff(agentLog[j])

ClientOrder ==
  /\ Extends(clientLog, clientLog')
  /\ AgentDelivers(HandshakeMsgs) =>
       \A i \in 1..Len(NewEntries(clientLog, clientLog')) :
         LET m == NewEntries(clientLog, clientLog')[i].msg
         IN m.kind = "binary" => m.bytes = lastData'.bytes

C19_ArrivalOrder == []AgentOrder /\ [][ClientOrder]_vars

\* C20: a control message of the agent whose type is not one the switch knows
\* (or that has no type), or whose text is not JSON, or is the JSON null, has
\* no effect: no send to the agent or the client, settingsSent,
\* settingsApplied, preFrames and micBuf unchanged, no connection closed.
DroppedMsgs ==
  {TextMsg(TxtUnknown), TextMsg(TxtObject), TextMsg(TxtNull), TextMsg(TxtGarbage),
   BinMsg(BytesObject), BinMsg(BytesBraceNul)}

C20_UnknownDropped ==
  [][AgentDelivers(DroppedMsgs) =>
       /\ agentLog' = agentLog
       /\ clientLog' = clientLog
       /\ UNCHANGED << settingsSent, settingsApplied, preFrames, pushed, micBuf, closed,
                       agentState, browserState, browserCloseCode, keepaliveOn,
                       meterOn, agentCloseCalls, terminateCalls, phase >>]_vars

C20_Witness ==
  /\ lastData = TextMsg(TxtUnknown)
  /\ nAgent = RelayAgentMsgs
  /\ settingsSent
  /\ ~settingsApplied
  /\ preFrames # << >>
  /\ agentLog = << Sent(SettingsMsg, TRUE) >>
  /\ ~closed
  /\ agentState = "OPEN"

\* C23: after every call of _resampleBlock the read cursor is less than one
\* sample past the input history: 0 <= pos < inBuf.length + 1.
C23_CursorBounded ==
  /\ pos >= 0
  /\ pos < (Len(inBuf) + 1) * OUT_RATE

C23_Witness ==
  /\ nBlocks >= 2
  /\ pos > 0
  /\ inBuf # << >>
  /\ resampled # << >>

\* C24: whatever the blocks in which the input is fed, the k-th sample that
\* _resampleBlock returns is read at position (k - 1) * ratio of the input
\* stream, as when the stream is fed as one block (on the ramp signal the
\* sample read at a position is the position itself).
C24_Continuity ==
  (signal = "ramp" /\ inRate > OUT_RATE) =>
    \A k \in 1..Len(resampled) : resampled[k] = 2 * (k - 1) * inRate

\* C25: the number of samples returned by _resampleBlock so far differs from
\* fed * OUT_RATE / inRate by at most 1 (checked for the rates from 16 kHz up).
C25_OutputCount ==
  inRate >= OUT_RATE =>
    /\ Len(resampled) * inRate - fed * OUT_RATE <= inRate
    /\ fed * OUT_RATE - Len(resampled) * inRate <= inRate

\* C26: every frame posted holds exactly 320 samples, fewer than 320 samples
\* stay queued in outFloat, and the posted frames followed by the queue are the
\* resampled stream in order (a posted sample being the 16-bit value of the
\* resampled one).
C26_WholeFrames ==
  /\ \A j \in 1..Len(posted) : Len(posted[j]) = 320
  /\ Len(outFloat) < 320
  /\ Len(posted) * 320 + Len(outFloat) = Len(resampled)
  /\ outFloat = slice(resampled, Len(posted) * 320)
  /\ \A k \in 1..(Len(posted) * 320) :
       LET q == posted[((k - 1) \div 320) + 1][((k - 1) % 320) + 1]
           r == resampled[k]
       IN /\ (r >= 0 => q >= 0) /\ (r <= 0 => q <= 0)
          /\ (r > 0 /\ r <= 32000) => (q * 32000 <= r * 32767 /\ r * 32767 < (q + 1) * 32000)

C26_Witness ==
  /\ Len(posted) >= 2
  /\ outFloat # << >>
  /\ inRate = 8000

\* C27: every value of a posted frame lies in -32768 .. 32767; a sample of
\* 1.0 or more is posted as 32767 and a sample of -1.0 or less as -32768,
\* and a sample between them as its product with 32767 (32768 when it is
\* negative) truncated towards zero.
C27_Quantization ==
  \A j \in 1..Len(posted) : \A i \in 1..Len(posted[j]) :
    LET q == posted[j][i]
        r == resampled[(j - 1) * 320 + i]
    IN /\ q >= -32768 /\ q <= 32767
       /\ r >= 32000 => q = 32767
       /\ r <= -32000 => q = -32768
       /\ (r >= 0 /\ r < 32000) => (q * 32000 <= r * 32767 /\ r * 32767 < (q + 1) * 32000)
       /\ (r < 0 /\ r > -32000) => ((q - 1) * 32000 < r * 32768 /\ r * 32768 <= q * 32000)

C27_Witness ==
  /\ signal = "saw"
  /\ inRate = 16000
  /\ Len(posted) = 1
  /\ posted[1][1] = -32768
  /\ posted[1][2] = -32768
  /\ posted[1][3] = -16384
  /\ posted[1][4] = 0
  /\ posted[1][5] = 16383
  /\ posted[1][6] = 32767
  /\ posted[1][7] = 32767

\* the samples written so far that came from a chunk
Played == Cardinality({k \in 1..Len(outLog) : outLog[k] # 0})
\* the first n elements of seq followed by zeros, n + zeros long
Padded(seq, n) == [k \in 1..n |-> IF k <= Len(seq) THEN seq[k] ELSE 0]
\* the samples of the queue that were not read yet, oldest first
RECURSIVE Pending(_, _)
Pending(q, ri) ==
  IF q = << >> THEN << >>
  ELSE SubSeq(q[1], ri + 1, Len(q[1])) \o Pending(Tail(q), 0)

\* C28: a call of PCMPlayer.process writes every sample of the output: the
\* samples of the enqueued chunks that were not played yet, in the order they
\* were enqueued, and zero from the point where the queue is empty; the queue
\* keeps exactly the samples not yet played; the call returns true, also when
\* there is no output to write.
C28_Playback ==
  [][nRender' # nRender =>
       /\ lastRet' = JsTrue
       /\ Pending(queue', readIndex') = SubSeq(enq', Played' + 1, Len(enq'))
       /\ lastOut'.written =>
            LET out == lastOut'.samples
            IN /\ Len(outLog') - Len(outLog) = Len(out)
               /\ out = Padded(SubSeq(enq, Played + 1, Len(enq)), Len(out))
               /\ \A k \in 1..Len(out) : out[k] # Stale]_vars

C28_Witness ==
  /\ nRender >= 2
  /\ lastOut = Output(<< 3, 4, 0, 0 >>)
  /\ outLog = << 1, 2, 3, 4, 0, 0 >>
  /\ queue = << >>

\* C21: when the agent connection closes while the session is open, the
\* status message "Deepgram connection closed." is sent to the client while
\* its connection is still open, and in the same handler the session closes:
\* the client connection is terminated and both timers are cancelled.  The
\* agent connection stays closed afterwards and the session stays closed.
C21_AgentCloseEndsSession ==
  /\ [][(agentState' = "CLOSED" /\ agentState # "CLOSED" /\ ~closed) =>
          /\ browserState = "OPEN"
          /\ \E ok \in BOOLEAN :
               clientLog' = Append(clientLog, Sent(Status("Deepgram connection closed."), ok))
          /\ browserState' = "CLOSING"
          /\ terminateCalls' = terminateCalls + 1
          /\ closed'
          /\ ~keepaliveOn' /\ ~meterOn']_vars
  /\ [][(agentState = "CLOSED" => agentState' = "CLOSED") /\ (closed => closed')]_vars
  /\ [][(agentState = "CLOSED" /\ closed) => agentLog' = agentLog]_vars

C21_Witness ==
  /\ agentState = "CLOSED"
  /\ ~agentErrored
  /\ ~browserErrored
  /\ settingsApplied
  /\ clientLog # << >>
  /\ clientLog[Len(clientLog)] = Sent(Status("Deepgram connection closed."), TRUE)
  /\ browserState = "CLOSING"
  /\ terminateCalls = 1
  /\ closed /\ ~keepaliveOn /\ ~meterOn

\* a send of this step threw: a status, transcript or audio message to the
\* client, or an audio frame or KeepAlive to the agent
FailedToClient ==
  \E i \in (Len(clientLog) + 1)..Len(clientLog') :
    /\ ~clientLog'[i].ok
    /\ clientLog'[i].msg.kind = "binary" \/ clientLog'[i].msg.type \in {"status", "transcript"}
FailedToAgent ==
  \E i \in (Len(agentLog) + 1)..Len(agentLog') :
    ~agentLog'[i].ok /\ agentLog'[i].msg.type \in {"audio", "KeepAlive"}
\* the messages of a log, whatever became of their sends
MsgsOf(log) == [i \in 1..Len(log) |-> log[i].msg]

\* C22: when a send of a status, transcript or audio message to the client,
\* or of an audio frame or KeepAlive to the agent, throws, the handler runs
\* to its end and the session is as if the send had succeeded: it is not
\* closed by the failure, settingsSent, settingsApplied and the carry buffer
\* micBuf have the values of the run without the failure, and the sends that
\* follow the failed one outside the flush loop are still made.
C22_SendFailureCaught ==
  [][(FailedToClient \/ FailedToAgent) =>
       /\ closed' = (closed \/ (agentState' = "CLOSED" /\ agentState # "CLOSED"))
       /\ settingsSent' = (settingsSent \/ SettingsOk(agentLog') # SettingsOk(agentLog))
       /\ settingsApplied' = (settingsApplied \/ (nAgent' # nAgent /\ IsAck(lastData')))
       /\ nAgent' # nAgent =>
            LET ideal == OnAgentMessage(lastData', Fields, TRUE, TRUE, 0)
            IN /\ preFrames' = ideal.preFrames
               /\ MsgsOf(clientLog') = MsgsOf(ideal.clientLog)
               /\ micBuf' = micBuf
       /\ nClient' # nClient =>
            LET mb == BufConcat(micBuf, Chunk(streamPos, streamPos' - streamPos))
                ideal == FrameLoop(mb, preFrames, pushed,
                                   ShouldBuffer(settingsSent, settingsApplied), {})
            IN /\ micBuf' = ideal.micBuf
               /\ MsgsOf(agentLog') = MsgsOf(agentLog \o ideal.sends)
       /\ (nAgent' = nAgent /\ nClient' = nClient) => micBuf' = micBuf]_vars

C22_Witness ==
  /\ ~closed
  /\ settingsSent /\ settingsApplied
  /\ Len(agentLog) >= 3
  /\ agentLog[Len(agentLog) - 1] = Sent(Audio(Chunk(0, BYTES_PER_FRAME)), FALSE)
  /\ agentLog[Len(agentLog)] = Sent(Audio(Chunk(BYTES_PER_FRAME, BYTES_PER_FRAME)), TRUE)
  /\ micBuf = Chunk(2 * BYTES_PER_FRAME, 1)
  /\ ackSeen

\* C29: whenever settingsSent and settingsApplied are both true, preFrames is
\* empty: no frame stays in the pre-roll buffer while the frames that follow
\* it are sent directly.
C29_NoStrandedFrame ==
  (settingsSent /\ settingsApplied) => preFrames = << >>

\* the types the handler treats as transcripts
TranscriptBearing ==
  {"Transcript", "ConversationText", "UserTranscript", "History", "UserResponse",
   "AddUserMessage", "AddAssistantMessage", "AgentTranscript", "AgentResponse",
   "PartialTranscript", "AddPartialTranscript"}

\* C30: an agent event of a transcript-bearing type whose text (the first of
\* content, text, transcript and message that is present, trimmed) is not
\* empty makes the session send the client exactly one message, of type
\* 'transcript', with that text and the role 'User' or 'Agent'; when the text
\* is empty nothing is sent to the client.
C30_OneTranscript ==
  [][(nAgent' # nAgent /\ ParseEvent(lastData').js = "object"
        /\ ParseEvent(lastData').type \in TranscriptBearing) =>
       LET evt == ParseEvent(lastData')
       IN IF TextOf(evt) # ""
            THEN \E role \in {"User", "Agent"}, partial, ok \in BOOLEAN :
                   clientLog' = Append(clientLog,
                                       Sent(TranscriptMsg(role, TextOf(evt), partial), ok))
            ELSE clientLog' = clientLog]_vars

C30_Witness ==
  /\ nAgent = 2
  /\ ParseEvent(lastData).type = "AddPartialTranscript"
  /\ clientLog[Len(clientLog)] = Sent(TranscriptMsg("Agent", "c", TRUE), TRUE)

\* C31: an AgentWarning, AgentError or Error event of the agent makes the
\* session send the client exactly one message, of type 'status', and
\* nothing else: no transcript, nothing to the agent, the session and both
\* connections stay as they are, and settingsSent, settingsApplied and the
\* pre-roll buffer keep their values.
C31_StatusOnly ==
  [][(nAgent' # nAgent /\ ParseEvent(lastData').js = "object"
        /\ ParseEvent(lastData').type \in {"AgentWarning", "AgentError", "Error"}) =>
       /\ \E e \in {clientLog'[Len(clientLog')]} :
            /\ clientLog' = Append(clientLog, e)
            /\ e.msg.kind = "text" /\ e.msg.type = "status" /\ e.msg.text # ""
       /\ closed' = closed
       /\ agentState' = agentState /\ browserState' = browserState
       /\ keepaliveOn' = keepaliveOn /\ meterOn' = meterOn
       /\ settingsSent' = settingsSent /\ settingsApplied' = settingsApplied
       /\ preFrames' = preFrames /\ micBuf' = micBuf
       /\ agentLog' = agentLog]_vars

C31_Witness ==
  /\ nAgent = 2
  /\ ParseEvent(lastData).type = "AgentError"
  /\ ParseEvent(lastData).content = "x"
  /\ clientLog[Len(clientLog)] = Sent(Status("unknown"), TRUE)
  /\ settingsApplied /\ ~closed
  /\ preFrames # << >>

\* the session is down: the agent connection is closed, terminate was called
\* on the client connection, and neither timer runs
SessionDown ==
  /\ closed
  /\ agentState = "CLOSED"
  /\ terminateCalls = 1
  /\ browserState \in {"CLOSING", "CLOSED"}
  /\ ~keepaliveOn /\ ~meterOn

\* C33: when the 'close' event of the agent connection is delivered once it is
\* due, a session in which the client connection or the agent connection has
\* closed reaches a state where the agent connection is closed, the client
\* connection is terminated and both timers are cancelled; and no step leaves
\* that state.
C33_EventuallyDown ==
  /\ ((phase = "running" /\ (browserState = "CLOSED" \/ agentState = "CLOSED")) ~> SessionDown)
  /\ [][SessionDown => SessionDown']_vars

C33_Witness ==
  /\ SessionDown
  /\ browserState = "CLOSED"
  /\ ~agentErrored /\ ~browserErrored
  /\ Len(agentCloseCalls) = 1
  /\ clientLog[Len(clientLog)].msg = Status("Deepgram connection closed.")
  /\ nClient > 0 /\ nAgent > 0

\* C34: a binary message of the client that arrives while the agent connection
\* is not OPEN is discarded: it is not sent, not put in preFrames and not
\* added to micBuf, and no field of the session changes.
C34_DroppedWhenNotOpen ==
  [][(nClient' # nClient /\ agentState # "OPEN") =>
       /\ agentLog' = agentLog /\ clientLog' = clientLog
       /\ preFrames' = preFrames /\ pushed' = pushed
       /\ micBuf' = micBuf
       /\ settingsSent' = settingsSent /\ settingsApplied' = settingsApplied
       /\ closed' = closed /\ agentState' = agentState /\ browserState' = browserState
       /\ keepaliveOn' = keepaliveOn /\ meterOn' = meterOn
       /\ agentCloseCalls' = agentCloseCalls /\ terminateCalls' = terminateCalls]_vars

C34_Witness ==
  /\ agentErrored
  /\ agentState = "CLOSING"
  /\ browserState = "OPEN"
  /\ settingsSent /\ settingsApplied
  /\ nClient > 0 /\ streamPos >= BYTES_PER_FRAME
  /\ AudioSends(agentLog) = {}
  /\ preFrames = << >> /\ micBuf = EmptyBuf

\* C36: the first message that goes out on the agent connection is Settings:
\* every audio frame and every KeepAlive whose send succeeded comes after a
\* Settings whose send succeeded.
C36_SettingsFirst ==
  \A i \in 1..Len(agentLog) :
    (agentLog[i].ok /\ agentLog[i].msg.type \in {"audio", "KeepAlive"}) =>
      \E j \in 1..(i - 1) : agentLog[j].ok /\ agentLog[j].msg.type = "Settings"

\* C32: in the second definition of the handler, an agent control event whose
\* type is not one of the transcript-bearing types makes the session send no
\* 'transcript' message to the client.
C32_NoTranscriptForOthers ==
  [][(nAgent' # nAgent /\ ParseEvent(lastData').type \notin TranscriptBearing) =>
       \A i \in (Len(clientLog) + 1)..Len(clientLog') :
         clientLog'[i].msg.type # "transcript"]_vars

\* a Buffer that starts with '{' and is not JSON
Unparsed(data) ==
  /\ data.isBuf
  /\ data.bytes # << >>
  /\ data.bytes[1] = 123
  /\ JSONParse(toStringUtf8(data.bytes)).js = "throws"

\* C35: a binary agent payload that begins with 0x7B and does not parse as
\* JSON is dropped by handleBrowserDemoWS (nothing is sent and no field of
\* the session changes) and is forwarded to the client as binary data by
\* setupWebDemoLive.
C35_UnparsedBrace ==
  [][(nAgent' # nAgent /\ Unparsed(lastData')) =>
       /\ agentLog' = agentLog
       /\ settingsSent' = settingsSent /\ settingsApplied' = settingsApplied
       /\ preFrames' = preFrames /\ micBuf' = micBuf /\ closed' = closed
       /\ phase \in {"running", "live"}
       /\ phase = "running" => clientLog' = clientLog
       /\ phase = "live" =>
            \E ok \in BOOLEAN :
              clientLog' = Append(clientLog, Sent(ClientBinary(lastData'.bytes), ok))]_vars

C35_Witness ==
  /\ phase = "live"
  /\ nAgent = 1
  /\ lastData = BinMsg(BytesBraceNul)
  /\ clientLog = << Sent(ClientBinary(BytesBraceNul), TRUE) >>

\* the entries of ALLOWED_ORIGINS: its comma-separated parts, trimmed, without
\* the empty ones
ListedOrigins(env) ==
  CASE env = "https://a.example" -> {"https://a.example"}
    [] env = "https://a.example, https://b.example" ->
         {"https://a.example", "https://b.example"}
    [] OTHER -> {}

\* a session of setupWebDemoLive leaves the phase "new"
LiveAccepts == phase = "new" /\ phase' = "live"
LiveRejects == phase = "new" /\ phase' = "rejected" /\ browserCloseCode' # 1011

C38_ReadsInRange ==
  /\ lastRead < lastLen
  /\ Len(inBuf) <= 1
  /\ pos >= 0 /\ pos < OUT_RATE

C38_Witness ==
  /\ inRate = 24000
  /\ nBlocks >= 2
  /\ Len(inBuf) = 1
  /\ pos = 8000
  /\ lastRead = lastLen - 1
  /\ lastLen >= 2

\* the queue between two callbacks
QueueShape ==
  /\ \A j \in 1..Len(queue) : Len(queue[j]) > 0
  /\ queue = << >> => readIndex = 0
  /\ queue # << >> => (readIndex >= 0 /\ readIndex < Len(queue[1]))

\* C39: after every callback of PCMPlayer the queue holds no chunk of length
\* zero, readIndex is 0 when the queue is empty and an index of the head
\* chunk otherwise; a message that is not an ArrayBuffer, or an ArrayBuffer
\* without samples, leaves the queue and readIndex as they were.
C39_QueueShape ==
  [][/\ QueueShape'
     /\ (nEnq' # nEnq /\ (~lastMsg'.isBuffer \/ lastMsg'.len = 0)) =>
          (queue' = queue /\ readIndex' = readIndex)]_vars

C39_Witness ==
  /\ nEnq = MaxEnqueues
  /\ lastMsg = [isBuffer |-> TRUE, len |-> 0]
  /\ Len(queue) = 2
  /\ readIndex = 1
  /\ nRender > 0

====
